---------------------------- MODULE Spec2Model ----------------------------
(***************************************************************************)
(* A model of the Lua interpreter of this repository: the binary chunk     *)
(* writer (luago/binchunk/writer.go) and the map-backed Lua table          *)
(* (package state).                                                        *)
(*                                                                         *)
(* Representation of data                                                  *)
(*   byte        an integer in 0..255                                      *)
(*   string      a sequence of bytes                                       *)
(*   word        a fixed-width unsigned value as its bytes, most           *)
(*               significant first (what order.PutUintNN receives)         *)
(*   float64     its IEEE-754 bit pattern, a word of 8 bytes               *)
(*   int64       an integer (the inputs stay within 31 bits)               *)
(*   luaValue / constant  a record tagged by its Go dynamic type in t      *)
(***************************************************************************)
EXTENDS Integers, Sequences, FiniteSets, TLC

VARIABLES
    proto,      \* Dump's argument p
    pc,         \* position inside Dump / which entry point ran
    d,          \* the dumpState: out (bytes.Buffer), order, err, and the log of sections entered
    file,       \* contents of my_luac.out, NoFile before it is written
    ret,        \* Dump's return value
    undumped,   \* the prototype read back from the file, NoProto before
    str,        \* argument of a direct writeString call
    t,          \* the luaTable: _map, keys, lastKey, changed
    op,         \* the last table operation: name, arguments, result, panic
    fi,         \* the funcInfo handed to toProto, NoFuncInfo before
    host,       \* the last call of a host function: its stack, results and panic
    loop,       \* a generic for loop over pairs(t) or ipairs(t)
    parse,      \* a run of Parse: the tokens, the lexer's position, the outcome
    dbp         \* the debugged target of package proc: breakpoints, threads, the last call

chunkVars == <<proto, pc, d, file, ret, undumped, str>>
tableVars == <<t, op>>
genVars == <<fi>>
hostVars == <<host, loop>>
parseVars == <<parse>>
procVars == <<dbp>>
restVars == <<genVars, hostVars, parseVars, procVars>>
vars == <<proto, pc, d, file, ret, undumped, str, t, op, fi, host, loop, parse, dbp>>

-----------------------------------------------------------------------------
(* Bounds of the model                                                     *)

\* string bytes are drawn from 1..MaxFill
MaxFill == 2
\* nesting depth of the prototypes below the main function
MaxDepth == 2
\* integer keys of the table are 1..MaxIntKey
MaxIntKey == 2

\* the small register counts of a function: 0..MaxRegs
MaxRegs == 3

-----------------------------------------------------------------------------
(* Generic helpers                                                         *)

Byte == 0..255

RECURSIVE Flatten(_)
Flatten(ss) == IF ss = <<>> THEN <<>> ELSE Head(ss) \o Flatten(Tail(ss))

Reverse(s) == [i \in 1..Len(s) |-> s[Len(s) + 1 - i]]

\* The k low-order bytes of n in two's complement, least significant first:
\* what the Go conversions uint8(n), uint32(n), uint64(n) keep of n.
RECURSIVE LowBytes(_, _)
LowBytes(n, k) == IF k = 0 THEN <<>> ELSE <<n % 256>> \o LowBytes(n \div 256, k - 1)

\* uintNN(n) as a word of k bytes
ToWord(n, k) == Reverse(LowBytes(n, k))

\* Statements in program order: each element is evaluated before the next, and
\* the value is the state after the last one.
Last(stmts) == stmts[Len(stmts)]

\* a string of n bytes, all equal to b
MkStr(n, b) == [i \in 1..n |-> b]

-----------------------------------------------------------------------------
(* Constants of package binchunk                                           *)

LUA_SIGNATURE == <<27, 76, 117, 97>>
LUAC_VERSION == 83
LUAC_FORMAT == 0
LUAC_DATA == <<25, 147, 13, 10, 26, 10>>
CINT_SIZE == 4
CSIZET_SIZE == 8
INSTRUCTION_SIZE == 4
LUA_INTEGER_SIZE == 8
LUA_NUMBER_SIZE == 8
LUAC_INT == 22136
\* 370.5 as a float64: 0x4077280000000000
LUAC_NUM == <<64, 119, 40, 0, 0, 0, 0, 0>>

TAG_NIL == 0
TAG_BOOLEAN == 1
TAG_NUMBER == 3
TAG_INTEGER == 19
TAG_SHORT_STR == 4
TAG_LONG_STR == 20

\* the longest string written with a one-byte length
ShortStrMax == 253
\* the byte that announces an 8-byte length
LongStrMark == 255
\* the longest string constant tagged TAG_SHORT_STR
ShortTagMax == 253

-----------------------------------------------------------------------------
(* Values                                                                  *)

LuaNil == [t |-> "nil"]
LuaBool(b) == [t |-> "bool", b |-> b]
LuaInt(i) == [t |-> "int64", i |-> i]
LuaFloat(bits) == [t |-> "float64", bits |-> bits]
LuaStr(s) == [t |-> "string", s |-> s]

\* float64 bit patterns
F_Zero == <<0, 0, 0, 0, 0, 0, 0, 0>>
F_NegZero == <<128, 0, 0, 0, 0, 0, 0, 0>>
F_Half == <<63, 224, 0, 0, 0, 0, 0, 0>>
F_One == <<63, 240, 0, 0, 0, 0, 0, 0>>
F_OneAndHalf == <<63, 248, 0, 0, 0, 0, 0, 0>>
F_Two == <<64, 0, 0, 0, 0, 0, 0, 0>>
F_Three == <<64, 8, 0, 0, 0, 0, 0, 0>>
F_Four == <<64, 16, 0, 0, 0, 0, 0, 0>>
F_Two63 == <<67, 224, 0, 0, 0, 0, 0, 0>>
F_Inf == <<127, 240, 0, 0, 0, 0, 0, 0>>
F_NaN == <<127, 248, 0, 0, 0, 0, 0, 1>>

NoErr == "nil"
NoFile == <<-1>>
NoProto == [none |-> TRUE]

-----------------------------------------------------------------------------
(* dumpState and its write methods                                         *)

BigEndianOrder == "BigEndian"

\* the order Dump gives its dumpState
DumpOrder == "LittleEndian"

\* order.PutUintNN: the bytes of a word in the given order
PutWord(order, w) == IF order = "LittleEndian" THEN Reverse(w) ELSE w

\* the error out.Write returns when it fails
ErrWrite == "write failed"

\* out is what the writer holds; nth counts the calls of out.Write, and failAt is
\* the call at which the writer fails (0: never, as the bytes.Buffer of Dump)
newDumpState(order) ==
    [out |-> <<>>, order |-> order, err |-> NoErr, log |-> <<>>, nth |-> 0, failAt |-> 0]

\* binary.Write(d.out, d.order, data): one call of out.Write with the encoded
\* data, whose error it returns
binaryWrite(ds, bytes) ==
    IF ds.nth + 1 = ds.failAt
    THEN [out |-> ds.out, err |-> ErrWrite, nth |-> ds.nth + 1]
    ELSE [out |-> ds.out \o bytes, err |-> NoErr, nth |-> ds.nth + 1]

write(ds, bytes) ==
    IF ds.err = NoErr
    THEN LET r == binaryWrite(ds, bytes)
         IN  [ds EXCEPT !.out = r.out, !.err = r.err, !.nth = r.nth]
    ELSE ds

writeByte(ds, b) == write(ds, PutWord(ds.order, ToWord(b, 1)))

writeUint32(ds, i) == write(ds, PutWord(ds.order, ToWord(i, 4)))

writeUint64(ds, i) == write(ds, PutWord(ds.order, ToWord(i, 8)))

writeStringTerminated(ds, s) ==
    LET size == Len(s) IN
    IF size = 0 THEN writeByte(ds, size)
    ELSE IF size <= ShortStrMax
         THEN writeByte(write(writeByte(ds, size + 1), s), 0)
         ELSE writeByte(write(writeUint64(writeByte(ds, LongStrMark), size + 1), s), 0)

writeString(ds, s) ==
    LET size == Len(s) IN
    IF size = 0 THEN writeByte(ds, size)
    ELSE IF size <= ShortStrMax
         THEN write(writeByte(ds, size + 1), s)
         ELSE write(writeUint64(writeByte(ds, LongStrMark), size + 1), s)

writeBool(ds, b) == IF b THEN writeByte(ds, 1) ELSE writeByte(ds, 0)

writeNumber(ds, f) == write(ds, PutWord(ds.order, f))

writeInteger(ds, i) == writeUint64(ds, i)

\* d.write(p.Code): one binary.Write of the whole []uint32
writeCode(ds, p) ==
    LET d1 == writeUint32(ds, Len(p.Code))
    IN  write(d1, Flatten([i \in 1..Len(p.Code) |-> PutWord(d1.order, ToWord(p.Code[i], 4))]))

writeConstantAlwaysShortTag(ds, o) ==
    CASE o.t = "nil" -> writeByte(ds, TAG_NIL)
      [] o.t = "bool" -> writeBool(writeByte(ds, TAG_BOOLEAN), o.b)
      [] o.t = "float64" -> writeNumber(writeByte(ds, TAG_NUMBER), o.bits)
      [] o.t = "int64" -> writeInteger(writeByte(ds, TAG_INTEGER), o.i)
      [] o.t = "string" -> writeString(writeByte(ds, TAG_SHORT_STR), o.s)

\* one constant of the pool: the type switch of writeConstants
writeConstant(ds, o) ==
    CASE o.t = "nil" -> writeByte(ds, TAG_NIL)
      [] o.t = "bool" -> writeBool(writeByte(ds, TAG_BOOLEAN), o.b)
      [] o.t = "float64" -> writeNumber(writeByte(ds, TAG_NUMBER), o.bits)
      [] o.t = "int64" -> writeInteger(writeByte(ds, TAG_INTEGER), o.i)
      [] o.t = "string" ->
            IF Len(o.s) <= ShortTagMax
            THEN writeString(writeByte(ds, TAG_SHORT_STR), o.s)
            ELSE writeString(writeByte(ds, TAG_LONG_STR), o.s)

RECURSIVE writeConstantsFrom(_, _)
writeConstantsFrom(ds, os) ==
    IF os = <<>> THEN ds
    ELSE LET d1 == writeConstant(ds, Head(os))
         IN  Last(<<d1, writeConstantsFrom(d1, Tail(os))>>)

writeConstants(ds, p) ==
    LET d1 == writeUint32(ds, Len(p.Constants))
    IN  Last(<<d1, writeConstantsFrom(d1, p.Constants)>>)

RECURSIVE writeUpvaluesFrom(_, _)

writeUpvaluesFromIdxFirst(ds, us) ==
    IF us = <<>> THEN ds
    ELSE LET d1 == writeByte(ds, Head(us).Idx)
             d2 == writeByte(d1, Head(us).Instack)
         IN  Last(<<d1, d2, writeUpvaluesFrom(d2, Tail(us))>>)

\* the loop over the upvalues, split in two halves to keep the evaluation shallow
writeUpvaluesFrom(ds, us) ==
    IF us = <<>> THEN ds
    ELSE IF Len(us) = 1
         THEN LET d1 == writeByte(ds, Head(us).Instack)
                  d2 == writeByte(d1, Head(us).Idx)
              IN  Last(<<d1, d2>>)
         ELSE LET h == Len(us) \div 2
                  d1 == writeUpvaluesFrom(ds, SubSeq(us, 1, h))
              IN  Last(<<d1, writeUpvaluesFrom(d1, SubSeq(us, h + 1, Len(us)))>>)

writeUpvalues(ds, p) ==
    LET d1 == writeUint32(ds, Len(p.Upvalues))
    IN  Last(<<d1, writeUpvaluesFrom(d1, p.Upvalues)>>)

RECURSIVE writeLineInfoFrom(_, _)
writeLineInfoFrom(ds, ls) ==
    IF ls = <<>> THEN ds
    ELSE LET d1 == writeUint32(ds, Head(ls))
         IN  Last(<<d1, writeLineInfoFrom(d1, Tail(ls))>>)

writeLineInfo(ds, p) ==
    LET d1 == writeUint32(ds, Len(p.LineInfo))
    IN  Last(<<d1, writeLineInfoFrom(d1, p.LineInfo)>>)

RECURSIVE writeLocVarsFrom(_, _)
writeLocVarsFrom(ds, lvs) ==
    IF lvs = <<>> THEN ds
    ELSE LET lv == Head(lvs)
             d1 == writeString(ds, lv.VarName)
             d2 == writeUint32(d1, lv.StartPC)
             d3 == writeUint32(d2, lv.EndPC)
         IN  Last(<<d1, d2, d3, writeLocVarsFrom(d3, Tail(lvs))>>)

\* the local variables written last to first
writeLocVarsBackwards(ds, p) ==
    LET d1 == writeUint32(ds, Len(p.LocVars))
    IN  Last(<<d1, writeLocVarsFrom(d1, Reverse(p.LocVars))>>)

writeLocVars(ds, p) ==
    LET d1 == writeUint32(ds, Len(p.LocVars))
    IN  Last(<<d1, writeLocVarsFrom(d1, p.LocVars)>>)

RECURSIVE writeUpvalueNamesFrom(_, _)
writeUpvalueNamesFrom(ds, ns) ==
    IF ns = <<>> THEN ds
    ELSE LET d1 == writeString(ds, Head(ns))
         IN  Last(<<d1, writeUpvalueNamesFrom(d1, Tail(ns))>>)

writeUpvalueNames(ds, p) ==
    LET d1 == writeUint32(ds, Len(p.UpvalueNames))
    IN  Last(<<d1, writeUpvalueNamesFrom(d1, p.UpvalueNames)>>)

\* Bookkeeping of the model, not of the program: the log notes that the writer
\* enters section `part` of the function at path fn (the main function is <<>>,
\* its i-th nested prototype <<i>>, ...) with `at` bytes already written.
enter(ds, part, fn) ==
    [ds EXCEPT !.log = Append(@, [part |-> part, fn |-> fn, at |-> Len(ds.out)])]

RECURSIVE dumpFunction(_, _, _)

RECURSIVE writePrototypesFrom(_, _, _, _)
writePrototypesFrom(ds, ps, i, fn) ==
    IF i > Len(ps) THEN ds
    ELSE LET d1 == dumpFunction(ds, ps[i], Append(fn, i))
         IN  Last(<<d1, writePrototypesFrom(d1, ps, i + 1, fn)>>)

writePrototypes(ds, p, fn) ==
    LET d1 == writeUint32(ds, Len(p.Protos))
    IN  Last(<<d1, writePrototypesFrom(d1, p.Protos, 1, fn)>>)

dumpFunctionLineInfoFirst(ds, p, fn) ==
    LET d1 == writeString(enter(ds, "source", fn), p.Source)
        d2 == writeUint32(enter(d1, "lineDefined", fn), p.LineDefined)
        d3 == writeUint32(enter(d2, "lastLineDefined", fn), p.LastLineDefined)
        d4 == writeByte(enter(d3, "numParams", fn), p.NumParams)
        d5 == writeByte(enter(d4, "isVararg", fn), p.IsVararg)
        d6 == writeByte(enter(d5, "maxStackSize", fn), p.MaxStackSize)
        d7 == writeCode(enter(d6, "code", fn), p)
        d8 == writeConstants(enter(d7, "constants", fn), p)
        d9 == writeUpvalues(enter(d8, "upvalues", fn), p)
        d10 == writeLineInfo(enter(d9, "lineInfo", fn), p)
        d11 == writePrototypes(enter(d10, "protos", fn), p, fn)
        d12 == writeLocVars(enter(d11, "locVars", fn), p)
        d13 == writeUpvalueNames(enter(d12, "upvalueNames", fn), p)
    IN  Last(<<d1, d2, d3, d4, d5, d6, d7, d8, d9, d10, d11, d12, d13>>)

dumpFunction(ds, p, fn) ==
    LET d1 == writeString(enter(ds, "source", fn), p.Source)
        d2 == writeUint32(enter(d1, "lineDefined", fn), p.LineDefined)
        d3 == writeUint32(enter(d2, "lastLineDefined", fn), p.LastLineDefined)
        d4 == writeByte(enter(d3, "numParams", fn), p.NumParams)
        d5 == writeByte(enter(d4, "isVararg", fn), p.IsVararg)
        d6 == writeByte(enter(d5, "maxStackSize", fn), p.MaxStackSize)
        d7 == writeCode(enter(d6, "code", fn), p)
        d8 == writeConstants(enter(d7, "constants", fn), p)
        d9 == writeUpvalues(enter(d8, "upvalues", fn), p)
        d10 == writePrototypes(enter(d9, "protos", fn), p, fn)
        d11 == writeLineInfo(enter(d10, "lineInfo", fn), p)
        d12 == writeLocVars(enter(d11, "locVars", fn), p)
        d13 == writeUpvalueNames(enter(d12, "upvalueNames", fn), p)
    IN  Last(<<d1, d2, d3, d4, d5, d6, d7, d8, d9, d10, d11, d12, d13>>)

\* it assigns d.err whatever d.err was: no d.write
dumpSizeUpvalues(ds) ==
    LET r == binaryWrite(ds, PutWord(ds.order, ToWord(0, 1)))
    IN  [enter(ds, "sizeUpvalues", <<>>) EXCEPT !.out = r.out, !.err = r.err, !.nth = r.nth]

\* the header struct, field by field in declaration order
headerBytes(order) ==
    LUA_SIGNATURE
    \o <<LUAC_VERSION, LUAC_FORMAT>>
    \o LUAC_DATA
    \o <<CINT_SIZE, CSIZET_SIZE, INSTRUCTION_SIZE, LUA_INTEGER_SIZE, LUA_NUMBER_SIZE>>
    \o PutWord(order, ToWord(LUAC_INT, 8))
    \o PutWord(order, LUAC_NUM)

dumpHeader(ds) ==
    LET r == binaryWrite(ds, headerBytes(ds.order))
    IN  [enter(ds, "header", <<>>) EXCEPT !.out = r.out, !.err = r.err, !.nth = r.nth]

\* os.Create and file.Write of the buffer; log.Fatal ends the process on failure
writeToFile(buffer) == [file |-> buffer, err |-> NoErr]

-----------------------------------------------------------------------------
(* The reader of the chunk format (binchunk.Undump)                        *)
(* A read returns [v |-> the value, pos |-> the bytes consumed so far].    *)

RECURSIVE FromLE(_)
FromLE(bs) == IF bs = <<>> THEN 0 ELSE Head(bs) + 256 * FromLE(Tail(bs))

\* a little-endian two's complement integer
SignedFromLE(bs) ==
    IF bs[Len(bs)] >= 128
    THEN -(1 + FromLE([i \in 1..Len(bs) |-> 255 - bs[i]]))
    ELSE FromLE(bs)

readByte(data, pos) == [v |-> data[pos + 1], pos |-> pos + 1]

readBytes(data, pos, n) == [v |-> SubSeq(data, pos + 1, pos + n), pos |-> pos + n]

readUint32(data, pos) == [v |-> FromLE(SubSeq(data, pos + 1, pos + 4)), pos |-> pos + 4]

readUint64(data, pos) == [v |-> FromLE(SubSeq(data, pos + 1, pos + 8)), pos |-> pos + 8]

readLuaInteger(data, pos) ==
    [v |-> SignedFromLE(SubSeq(data, pos + 1, pos + 8)), pos |-> pos + 8]

readLuaNumber(data, pos) == [v |-> Reverse(SubSeq(data, pos + 1, pos + 8)), pos |-> pos + 8]

readString(data, pos) ==
    LET b == readByte(data, pos) IN
    IF b.v = 0 THEN [v |-> <<>>, pos |-> b.pos]
    ELSE IF b.v = 255
         THEN LET n == readUint64(data, b.pos) IN readBytes(data, n.pos, n.v - 1)
         ELSE readBytes(data, b.pos, b.v - 1)

RECURSIVE readCodeFrom(_, _, _)
readCodeFrom(data, pos, n) ==
    IF n = 0 THEN [v |-> <<>>, pos |-> pos]
    ELSE LET w == readUint32(data, pos)
             r == readCodeFrom(data, w.pos, n - 1)
         IN  [v |-> <<w.v>> \o r.v, pos |-> r.pos]

readCode(data, pos) == LET n == readUint32(data, pos) IN readCodeFrom(data, n.pos, n.v)

readConstant(data, pos) ==
    LET tag == readByte(data, pos) IN
    CASE tag.v = 0 -> [v |-> LuaNil, pos |-> tag.pos]
      [] tag.v = 1 -> LET b == readByte(data, tag.pos) IN [v |-> LuaBool(b.v # 0), pos |-> b.pos]
      [] tag.v = 19 -> LET i == readLuaInteger(data, tag.pos) IN [v |-> LuaInt(i.v), pos |-> i.pos]
      [] tag.v = 3 -> LET f == readLuaNumber(data, tag.pos) IN [v |-> LuaFloat(f.v), pos |-> f.pos]
      [] tag.v \in {4, 20} ->
            LET x == readString(data, tag.pos) IN [v |-> LuaStr(x.v), pos |-> x.pos]
      [] OTHER -> [v |-> [t |-> "corrupt"], pos |-> Len(data)]

RECURSIVE readConstantsFrom(_, _, _)
readConstantsFrom(data, pos, n) ==
    IF n = 0 THEN [v |-> <<>>, pos |-> pos]
    ELSE LET c == readConstant(data, pos)
             r == readConstantsFrom(data, c.pos, n - 1)
         IN  [v |-> <<c.v>> \o r.v, pos |-> r.pos]

readConstants(data, pos) ==
    LET n == readUint32(data, pos) IN readConstantsFrom(data, n.pos, n.v)

RECURSIVE readUpvaluesFrom(_, _, _)
readUpvaluesFrom(data, pos, n) ==
    IF n = 0 THEN [v |-> <<>>, pos |-> pos]
    ELSE IF n = 1
         THEN LET a == readByte(data, pos)
                  b == readByte(data, a.pos)
              IN  [v |-> <<[Instack |-> a.v, Idx |-> b.v]>>, pos |-> b.pos]
         ELSE LET l == readUpvaluesFrom(data, pos, n \div 2)
                  r == readUpvaluesFrom(data, l.pos, n - (n \div 2))
              IN  [v |-> l.v \o r.v, pos |-> r.pos]

readUpvalues(data, pos) ==
    LET n == readUint32(data, pos) IN readUpvaluesFrom(data, n.pos, n.v)

readLineInfo(data, pos) == LET n == readUint32(data, pos) IN readCodeFrom(data, n.pos, n.v)

RECURSIVE readLocVarsFrom(_, _, _)
readLocVarsFrom(data, pos, n) ==
    IF n = 0 THEN [v |-> <<>>, pos |-> pos]
    ELSE LET name == readString(data, pos)
             a == readUint32(data, name.pos)
             b == readUint32(data, a.pos)
             r == readLocVarsFrom(data, b.pos, n - 1)
         IN  [v |-> <<[VarName |-> name.v, StartPC |-> a.v, EndPC |-> b.v]>> \o r.v,
              pos |-> r.pos]

readLocVars(data, pos) ==
    LET n == readUint32(data, pos) IN readLocVarsFrom(data, n.pos, n.v)

RECURSIVE readUpvalueNamesFrom(_, _, _)
readUpvalueNamesFrom(data, pos, n) ==
    IF n = 0 THEN [v |-> <<>>, pos |-> pos]
    ELSE LET name == readString(data, pos)
             r == readUpvalueNamesFrom(data, name.pos, n - 1)
         IN  [v |-> <<name.v>> \o r.v, pos |-> r.pos]

readUpvalueNames(data, pos) ==
    LET n == readUint32(data, pos) IN readUpvalueNamesFrom(data, n.pos, n.v)

RECURSIVE readProto(_, _, _)

RECURSIVE readProtosFrom(_, _, _, _)
readProtosFrom(data, pos, n, parentSource) ==
    IF n = 0 THEN [v |-> <<>>, pos |-> pos]
    ELSE LET f == readProto(data, pos, parentSource)
             r == readProtosFrom(data, f.pos, n - 1, parentSource)
         IN  [v |-> <<f.v>> \o r.v, pos |-> r.pos]

readProtos(data, pos, parentSource) ==
    LET n == readUint32(data, pos) IN readProtosFrom(data, n.pos, n.v, parentSource)

readProto(data, pos, parentSource) ==
    LET src == readString(data, pos)
        source == IF src.v = <<>> THEN parentSource ELSE src.v
        ld == readUint32(data, src.pos)
        lld == readUint32(data, ld.pos)
        np == readByte(data, lld.pos)
        va == readByte(data, np.pos)
        ms == readByte(data, va.pos)
        code == readCode(data, ms.pos)
        ks == readConstants(data, code.pos)
        us == readUpvalues(data, ks.pos)
        ps == readProtos(data, us.pos, source)
        li == readLineInfo(data, ps.pos)
        lv == readLocVars(data, li.pos)
        un == readUpvalueNames(data, lv.pos)
    IN  [v |-> [Source |-> source, LineDefined |-> ld.v, LastLineDefined |-> lld.v,
                NumParams |-> np.v, IsVararg |-> va.v, MaxStackSize |-> ms.v,
                Code |-> code.v, Constants |-> ks.v, Upvalues |-> us.v, Protos |-> ps.v,
                LineInfo |-> li.v, LocVars |-> lv.v, UpvalueNames |-> un.v],
         pos |-> un.pos]

HeaderLen == Len(headerBytes("LittleEndian"))

\* checkHeader, then the size-of-upvalues byte is skipped, then the main function
Undump(data) ==
    IF Len(data) <= HeaderLen \/ SubSeq(data, 1, HeaderLen) # headerBytes("LittleEndian")
    THEN [corrupt |-> TRUE]
    ELSE readProto(data, HeaderLen + 1, <<>>).v

-----------------------------------------------------------------------------
(* Inputs of the chunk writer                                              *)

Fills == {0, 255} \cup (1..MaxFill)

StrLens == {1, 2, ShortStrMax, ShortStrMax + 1, LongStrMark, LongStrMark + 1, 300}

Strings == {<<>>} \cup {MkStr(n, b) : n \in StrLens, b \in Fills}

ConstPools ==
    {<<>>,
     <<LuaNil, LuaBool(TRUE), LuaBool(FALSE)>>,
     <<LuaInt(1), LuaFloat(F_One)>>,
     <<LuaInt(-1), LuaInt(LUAC_INT), LuaFloat(LUAC_NUM), LuaFloat(F_NaN)>>,
     <<LuaInt(2147483647), LuaInt(-2147483647), LuaFloat(F_NegZero)>>}
    \cup {<<LuaStr(s)>> : s \in Strings}
    \cup {<<LuaStr(MkStr(n, 1)), LuaNil, LuaStr(<<>>), LuaInt(0)>> : n \in StrLens}

Env == [Instack |-> 1, Idx |-> 0]

\* a prototype as codegen's toProto builds it: no source name, no debug sections
Compiled(code, ks, ups, subs, isVararg) ==
    [Source |-> <<>>, LineDefined |-> Len(subs), LastLineDefined |-> Len(subs) + Len(code),
     NumParams |-> Len(ups), IsVararg |-> isVararg, MaxStackSize |-> 2 + Len(ks),
     Code |-> code, Constants |-> ks, Upvalues |-> ups, Protos |-> subs,
     LineInfo |-> <<>>, LocVars |-> <<>>, UpvalueNames |-> <<>>]

\* the same prototype with a source name and debug sections (as luac writes them)
WithDebug(p, src) ==
    [p EXCEPT !.Source = src,
              !.LineInfo = [i \in 1..Len(p.Code) |-> i],
              !.LocVars = <<[VarName |-> src, StartPC |-> 0, EndPC |-> Len(p.Code)],
                            [VarName |-> <<>>, StartPC |-> 1, EndPC |-> 2]>>,
              !.UpvalueNames = [i \in 1..Len(p.Upvalues) |-> MkStr(i, 95)]]

Codes == {<<>>, <<8388646>>, <<65, 2147483647, 8388646>>}

Leaves ==
    {Compiled(<<8388646>>, ks, <<Env>>, <<>>, 1) : ks \in ConstPools}
    \cup {Compiled(c, <<LuaInt(7)>>, ups, <<>>, 0) :
            c \in Codes, ups \in {<<>>, <<Env, [Instack |-> 0, Idx |-> 255]>>}}

LeafA == Compiled(<<8388646>>, <<>>, <<>>, <<>>, 0)
LeafB == Compiled(<<65, 8388646>>, <<LuaStr(<<120>>), LuaFloat(F_Half)>>, <<[Instack |-> 1, Idx |-> 3]>>, <<>>, 1)
LeafC == WithDebug(LeafB, <<64, 99>>)

Parent(subs) == Compiled(<<44, 8388646>>, <<LuaBool(TRUE)>>, <<Env>>, subs, 1)

RECURSIVE Nested(_)
Nested(depth) ==
    IF depth = 0 THEN {LeafA, LeafB, LeafC}
    ELSE {Parent(<<c>>) : c \in Nested(depth - 1)}
         \cup {Parent(<<LeafB, c>>) : c \in Nested(depth - 1)}

Protos ==
    Leaves
    \cup {WithDebug(p, src) : p \in {LeafA, LeafB, Parent(<<LeafA, LeafC>>)},
                              src \in {<<64>>, MkStr(ShortStrMax + 1, 64)}}
    \cup UNION {Nested(n) : n \in 1..MaxDepth}

-----------------------------------------------------------------------------
(* Dump, step by step, and the entry points around it                      *)

ChunkIdle ==
    /\ proto = NoProto
    /\ pc = "idle"
    /\ d = newDumpState(DumpOrder)
    /\ file = NoFile
    /\ ret = NoErr
    /\ undumped = NoProto
    /\ str = <<>>

\* Dump(p): the buffer and the dumpState are created
Dump(p) ==
    /\ pc = "idle"
    /\ proto' = p
    /\ d' = newDumpState(DumpOrder)
    /\ pc' = "Dump"
    /\ UNCHANGED <<file, ret, undumped, str>>

DumpHeaderStep ==
    /\ pc = "Dump"
    /\ d' = dumpHeader(d)
    /\ pc' = "dumpHeader"
    /\ UNCHANGED <<proto, file, ret, undumped, str>>

DumpSizeUpvaluesStep ==
    /\ pc = "dumpHeader"
    /\ d' = dumpSizeUpvalues(d)
    /\ pc' = "dumpSizeUpvalues"
    /\ UNCHANGED <<proto, file, ret, undumped, str>>

DumpFunctionStep ==
    /\ pc = "dumpSizeUpvalues"
    /\ d' = dumpFunction(d, proto, <<>>)
    /\ pc' = "dumpFunction"
    /\ UNCHANGED <<proto, file, ret, undumped, str>>

\* d.err = writeToFile(buffer); return d.err
DumpReturn ==
    /\ pc = "dumpFunction"
    /\ LET r == writeToFile(d.out)
       IN  /\ file' = r.file
           /\ d' = [d EXCEPT !.err = r.err]
           /\ ret' = r.err
    /\ pc' = "return"
    /\ UNCHANGED <<proto, undumped, str>>

\* Dump(p) with a writer in the place of the buffer whose k-th Write fails
DumpFailing(p, k) ==
    /\ pc = "idle"
    /\ proto' = p
    /\ d' = [newDumpState(DumpOrder) EXCEPT !.failAt = k]
    /\ pc' = "Dump"
    /\ UNCHANGED <<file, ret, undumped, str>>

\* testUnDump: the file is read back
TestUnDump ==
    /\ pc = "return"
    /\ undumped' = Undump(file)
    /\ pc' = "undumped"
    /\ UNCHANGED <<proto, d, file, ret, str>>

\* writeString called on a fresh dumpState
CallWriteString(s) ==
    /\ pc = "idle"
    /\ str' = s
    /\ d' = writeString(newDumpState(DumpOrder), s)
    /\ pc' = "writeString"
    /\ UNCHANGED <<proto, file, ret, undumped>>

TableIdle == t = [none |-> TRUE] /\ op = [name |-> "none"]

\* nothing compiled, no host function called, no loop running, nothing parsed
NoFuncInfo == [none |-> TRUE]
NoCall == [fn |-> "none"]
NoLoop == [kind |-> "none"]
NoParse == [pc |-> "none"]

NoTarget == [pc |-> "none"]

RestIdle ==
    fi = NoFuncInfo /\ host = NoCall /\ loop = NoLoop /\ parse = NoParse /\ dbp = NoTarget

ChunkNext ==
    \/ \E p \in Protos : Dump(p) /\ UNCHANGED <<tableVars, restVars>>
    \/ DumpHeaderStep /\ UNCHANGED <<tableVars, restVars>>
    \/ DumpSizeUpvaluesStep /\ UNCHANGED <<tableVars, restVars>>
    \/ DumpFunctionStep /\ UNCHANGED <<tableVars, restVars>>
    \/ DumpReturn /\ UNCHANGED <<tableVars, restVars>>
    \/ TestUnDump /\ UNCHANGED <<tableVars, restVars>>
    \/ \E s \in Strings : CallWriteString(s) /\ UNCHANGED <<tableVars, restVars>>

\* the writes a writer lets through before the failing one: at most MaxFailAt - 1
MaxFailAt == 4

FailNext ==
    \/ \E p \in Protos, k \in 1..MaxFailAt : DumpFailing(p, k) /\ UNCHANGED <<tableVars, restVars>>
    \/ DumpHeaderStep /\ UNCHANGED <<tableVars, restVars>>
    \/ DumpSizeUpvaluesStep /\ UNCHANGED <<tableVars, restVars>>
    \/ DumpFunctionStep /\ UNCHANGED <<tableVars, restVars>>
    \/ DumpReturn /\ UNCHANGED <<tableVars, restVars>>

\* no program runs on a table here: only the chunk writer moves
ChunkInit == ChunkIdle /\ TableIdle /\ RestIdle

ChunkSpec == ChunkInit /\ [][ChunkNext]_vars

FailSpec == ChunkInit /\ [][FailNext]_vars

-----------------------------------------------------------------------------
(* Numbers as table keys                                                   *)

BitsOfByte(b) == [k \in 1..8 |-> (b \div (2 ^ (8 - k))) % 2]

\* the 64 bits of a float64, sign first
BitsOf(f) == Flatten([i \in 1..8 |-> BitsOfByte(f[i])])

Exponent(f) == (f[1] % 128) * 16 + (f[2] \div 16)

\* the 52 bits of the fraction
Fraction(f) == SubSeq(BitsOf(f), 13, 64)

IsNaN(f) == Exponent(f) = 2047 /\ \E k \in 1..52 : Fraction(f)[k] = 1

RECURSIVE BitsToNat(_)
BitsToNat(bs) == IF bs = <<>> THEN 0 ELSE 2 * BitsToNat(SubSeq(bs, 1, Len(bs) - 1)) + bs[Len(bs)]

\* number.FloatToInteger: i := int64(f); return i, float64(i) == f
\* (the floats of the model that have an integer value stay within 31 bits)
FloatToInteger(f) ==
    LET e == Exponent(f) - 1023
        frac == Fraction(f)
        neg == f[1] >= 128
    IN  IF Exponent(f) = 0
        THEN [i |-> 0, ok |-> \A k \in 1..52 : frac[k] = 0]
        ELSE IF e < 0 \/ e > 30
             THEN [i |-> 0, ok |-> FALSE]
             ELSE LET m == (2 ^ e) + BitsToNat(SubSeq(frac, 1, e))
                  IN  [i |-> IF neg THEN -m ELSE m,
                       ok |-> \A k \in (e + 1)..52 : frac[k] = 0]

-----------------------------------------------------------------------------
(* luaTable                                                                *)

\* a Go map as a function; a nil map reads as the empty one
EmptyMap == [x \in {} |-> LuaNil]

\* the field keys: nil before the first nextKey, a map made by initKeys after
NilKeys == [made |-> FALSE, m |-> EmptyMap]

MapGet(m, k) == IF k \in DOMAIN m THEN m[k] ELSE LuaNil

MapSet(m, k, v) == [x \in (DOMAIN m) \cup {k} |-> IF x = k THEN v ELSE m[x]]

MapDelete(m, k) == [x \in (DOMAIN m) \ {k} |-> m[x]]

newLuaTable == [_map |-> EmptyMap, keys |-> NilKeys, lastKey |-> LuaNil, changed |-> FALSE]

keepFloatKey(key) == key

_floatToInteger(key) ==
    IF key.t = "float64"
    THEN LET r == FloatToInteger(key.bits) IN IF r.ok THEN LuaInt(r.i) ELSE key
    ELSE key

len(self) == Cardinality(DOMAIN self._map)

get(self, key) == MapGet(self._map, _floatToInteger(key))

putPanics(key) == key = LuaNil \/ (key.t = "float64" /\ IsNaN(key.bits))

putKeepsNil(self, key, val) ==
    [self EXCEPT !.changed = TRUE, !._map = MapSet(self._map, _floatToInteger(key), val)]

putMarksChangedFirst(self, key, val) ==
    IF putPanics(key) THEN [self EXCEPT !.changed = TRUE]
    ELSE LET k == _floatToInteger(key)
         IN  [self EXCEPT !.changed = TRUE,
                          !._map = IF val # LuaNil THEN MapSet(self._map, k, val)
                                   ELSE MapDelete(self._map, k)]

\* the table after put(key, val); a panicking put returns before any assignment
put(self, key, val) ==
    IF putPanics(key) THEN self
    ELSE LET k == _floatToInteger(key)
         IN  [self EXCEPT !.changed = TRUE,
                          !._map = IF val # LuaNil THEN MapSet(self._map, k, val)
                                   ELSE MapDelete(self._map, k)]

\* the orders in which `range self._map` can visit the keys
Orders(m) ==
    {o \in [1..Cardinality(DOMAIN m) -> DOMAIN m] : \A i, j \in DOMAIN o : i # j => o[i] # o[j]}

\* initKeys for one iteration order: keys links nil to the first key and every
\* key to the one visited after it; the last key visited has no entry
initKeys(self, order) ==
    LET n == Len(order)
        prev(i) == IF i = 1 THEN LuaNil ELSE order[i - 1]
    IN  [self EXCEPT !.keys = [made |-> TRUE,
                               m |-> [k \in {prev(i) : i \in 1..n} |->
                                         order[CHOOSE i \in 1..n : prev(i) = k]]],
                     !.lastKey = IF n = 0 THEN LuaNil ELSE order[n]]

\* the snapshot made once and kept
needsInitKeysOnce(self, key) == ~self.keys.made

needsInitKeys(self, key) == ~self.keys.made \/ (key = LuaNil /\ self.changed)

\* the table after nextKey(key), the key returned, and whether it panicked
nextKey(self, key, order) ==
    LET s1 == IF needsInitKeys(self, key)
              THEN [initKeys(self, order) EXCEPT !.changed = FALSE]
              ELSE self
        next == MapGet(s1.keys.m, key)
    IN  [self |-> s1, ret |-> next,
         panic |-> next = LuaNil /\ key # LuaNil /\ key # s1.lastKey]

-----------------------------------------------------------------------------
(* The table driven by its callers                                         *)

IntKeys == {LuaInt(i) : i \in 1..MaxIntKey}

Keys ==
    IntKeys \cup {LuaNil, LuaFloat(F_NaN), LuaFloat(F_One), LuaFloat(F_Two),
                  LuaFloat(F_OneAndHalf), LuaStr(<<97>>)}

Vals == {LuaNil, LuaInt(10), LuaStr(<<120>>)}

\* a new table, and no chunk being written
TableInit ==
    /\ ChunkIdle
    /\ RestIdle
    /\ t = newLuaTable
    /\ op = [name |-> "new", key |-> LuaNil, val |-> LuaNil, ret |-> LuaNil, panic |-> FALSE]

Put(key, val) ==
    /\ t' = put(t, key, val)
    /\ op' = [name |-> "put", key |-> key, val |-> val, ret |-> LuaNil,
              panic |-> putPanics(key)]

Get(key) ==
    /\ t' = t
    /\ op' = [name |-> "get", key |-> key, val |-> LuaNil, ret |-> get(t, key),
              panic |-> FALSE]

LenOp ==
    /\ t' = t
    /\ op' = [name |-> "len", key |-> LuaNil, val |-> LuaNil, ret |-> LuaInt(len(t)),
              panic |-> FALSE]

\* a panic of nextKey comes after initKeys has run; the iteration order of the
\* map matters only to a call that runs initKeys
NextKey(key) ==
    \E order \in (IF needsInitKeys(t, key) THEN Orders(t._map) ELSE {<<>>}) :
        LET r == nextKey(t, key, order)
        IN  /\ t' = r.self
            /\ op' = [name |-> "nextKey", key |-> key, val |-> LuaNil, ret |-> r.ret,
                      panic |-> r.panic]

\* put, get and len
TableNext ==
    \/ \E key \in Keys, val \in Vals : Put(key, val) /\ UNCHANGED <<chunkVars, restVars>>
    \/ \E key \in Keys : Get(key) /\ UNCHANGED <<chunkVars, restVars>>
    \/ LenOp /\ UNCHANGED <<chunkVars, restVars>>

TableSpec == TableInit /\ [][TableNext]_vars

IterKeys == IntKeys \cup {LuaNil, LuaFloat(F_NaN), LuaFloat(F_One), LuaStr(<<97>>)}

IterVals == {LuaNil, LuaInt(10)}

\* put and nextKey: a traversal with next, and the puts that may come between
IterNext ==
    \/ \E key \in IterKeys, val \in IterVals : Put(key, val) /\ UNCHANGED <<chunkVars, restVars>>
    \/ \E key \in IterKeys : NextKey(key) /\ UNCHANGED <<chunkVars, restVars>>

IterSpec == TableInit /\ [][IterNext]_vars

-----------------------------------------------------------------------------
(* Code generation: from a funcInfo to a Prototype                         *)

\* byte(x) of a Go int
ToByte(x) == x % 256

\* an instruction word of the iABC layout with B = C = 0: opcode in bits 0-5,
\* A in bits 6-13
Inst(opcode, a) == opcode + 64 * a

OpCode(w) == w % 64

RegA(w) == (w \div 64) % 256

OP_LOADNIL == 4

OP_RETURN == 38

\* RETURN 0 1: returns no value and reads no register
ReturnNothing == Inst(OP_RETURN, 0) + 8388608

\* the registers the instructions name: the A operand of every LOADNIL
UsedRegs(insts) == {RegA(insts[i]) : i \in {j \in 1..Len(insts) : OpCode(insts[j]) = OP_LOADNIL}}

\* the constants placed from the other end of the array
getConstantsReversed(f) ==
    [i \in 1..Cardinality(DOMAIN f.constants) |->
        LET ks == {k \in DOMAIN f.constants :
                      f.constants[k] = Cardinality(DOMAIN f.constants) - i}
        IN  IF ks = {} THEN LuaNil ELSE CHOOSE k \in ks : TRUE]

\* getConstants: consts[idx] = k for every entry of the map fi.constants; an
\* index no constant has keeps the nil of make
getConstants(f) ==
    [i \in 1..Cardinality(DOMAIN f.constants) |->
        LET ks == {k \in DOMAIN f.constants : f.constants[k] = i - 1}
        IN  IF ks = {} THEN LuaNil ELSE CHOOSE k \in ks : TRUE]

\* one entry of fi.upvalues as a descriptor
upvalueOf(uv) ==
    IF uv.locVarSlot >= 0
    THEN [Instack |-> 1, Idx |-> ToByte(uv.locVarSlot)]
    ELSE [Instack |-> 0, Idx |-> ToByte(uv.upvalIndex)]

getUpvalues(f) ==
    [i \in 1..Cardinality(DOMAIN f.upvalues) |->
        LET ns == {n \in DOMAIN f.upvalues : f.upvalues[n].index = i - 1}
        IN  IF ns = {} THEN [Instack |-> 0, Idx |-> 0]
            ELSE upvalueOf(f.upvalues[CHOOSE n \in ns : TRUE])]

RECURSIVE toProto(_)
RECURSIVE toProtos(_)
\* a prototype that carries a line for every instruction
toProtoWithLineInfo(f) ==
    [Source |-> <<>>,
     NumParams |-> ToByte(f.numParams),
     IsVararg |-> IF f.isVararg THEN 1 ELSE 0,
     MaxStackSize |-> IF ToByte(f.maxRegs) < 2 THEN 2 ELSE ToByte(f.maxRegs),
     Code |-> f.insts,
     Constants |-> getConstants(f),
     Upvalues |-> getUpvalues(f),
     Protos |-> toProtos(f.subFuncs),
     LineInfo |-> [i \in 1..Len(f.insts) |-> f.LineDefined],
     LocVars |-> <<>>,
     UpvalueNames |-> <<>>,
     LineDefined |-> f.LineDefined,
     LastLineDefined |-> f.LastLineDefined]

toProto(f) ==
    LET p == [Source |-> <<>>,
              NumParams |-> ToByte(f.numParams),
              IsVararg |-> 0,
              MaxStackSize |-> ToByte(f.maxRegs),
              Code |-> f.insts,
              Constants |-> getConstants(f),
              Upvalues |-> getUpvalues(f),
              Protos |-> toProtos(f.subFuncs),
              LineInfo |-> <<>>,
              LocVars |-> <<>>,
              UpvalueNames |-> <<>>,
              LineDefined |-> f.LineDefined,
              LastLineDefined |-> f.LastLineDefined]
        p1 == IF p.MaxStackSize < 2 THEN [p EXCEPT !.MaxStackSize = 2] ELSE p
    IN  IF f.isVararg THEN [p1 EXCEPT !.IsVararg = 1] ELSE p1

\* the sub-functions converted last to first
toProtosReversed(fis) == [i \in 1..Len(fis) |-> toProto(fis[Len(fis) + 1 - i])]

toProtos(fis) == [i \in 1..Len(fis) |-> toProto(fis[i])]

-----------------------------------------------------------------------------
(* The funcInfos handed to toProto                                         *)

\* a one-byte field holds the values below 256
ByteRange == 256

RegCounts == (0..MaxRegs) \cup {ByteRange - 1, ByteRange, ByteRange + 1}

\* the variable names: v and a number
VarName(i) == <<118, i \div 256, i % 256>>

ENV == <<95, 69, 78, 86>>

\* a captured local of the enclosing function / a captured upvalue of it
LocalUpval(slot, idx) == [locVarSlot |-> slot, upvalIndex |-> -1, index |-> idx]

OuterUpval(up, idx) == [locVarSlot |-> -1, upvalIndex |-> up, index |-> idx]

NoUpvalues == [n \in {} |-> LocalUpval(0, 0)]

\* the main function captures _ENV, a local of the function around the chunk
MainUpvalues == [n \in {ENV} |-> LocalUpval(0, 0)]

\* the map a pool stands for: the constant at position i has index i - 1
IndexOfConstants(ks) ==
    [k \in {ks[i] : i \in 1..Len(ks)} |-> (CHOOSE i \in 1..Len(ks) : ks[i] = k) - 1]

\* instructions that use every register below maxRegs an instruction can name
InstsFor(maxRegs) ==
    IF maxRegs = 0 THEN <<ReturnNothing>>
    ELSE <<Inst(OP_LOADNIL, 0),
           Inst(OP_LOADNIL, (IF maxRegs > ByteRange THEN ByteRange ELSE maxRegs) - 1),
           ReturnNothing>>

FuncInfo(numParams, maxRegs, ks, ups, subs, isVararg) ==
    [numParams |-> numParams, maxRegs |-> maxRegs, insts |-> InstsFor(maxRegs),
     constants |-> IndexOfConstants(ks), upvalues |-> ups, subFuncs |-> subs,
     LineDefined |-> Len(subs), LastLineDefined |-> Len(subs) + maxRegs,
     isVararg |-> isVararg]

\* a function with nUp upvalues, the first fromUp of them upvalues of the
\* enclosing function and the others its locals
Capturing(nUp, fromUp, maxRegs, subs) ==
    FuncInfo(0, maxRegs, <<>>,
             [n \in {VarName(i) : i \in 0..(nUp - 1)} |->
                 LET i == n[2] * 256 + n[3]
                 IN  IF i < fromUp THEN OuterUpval(i, i) ELSE LocalUpval(i - fromUp, i)],
             subs, FALSE)

\* a function that captures the last upvalue of a function with more than 256
\* of them: main, with 253 locals, in a function that captures them and _ENV,
\* in a function that captures those 254 upvalues and three locals
DeepCapture ==
    LET inner == FuncInfo(0, 1, <<>>, [n \in {VarName(0)} |-> OuterUpval(ByteRange, 0)], <<>>, FALSE)
        l2 == Capturing(ByteRange + 1, ByteRange - 2, 2, <<inner>>)
        l1 == Capturing(ByteRange - 2, 1, 3, <<l2>>)
    IN  FuncInfo(0, ByteRange - 2, <<>>, MainUpvalues, <<l1>>, TRUE)

\* a function whose two upvalues were indexed in the other order than their names
Swapped ==
    FuncInfo(1, 2, <<LuaInt(1)>>,
             [n \in {VarName(1), VarName(2)} |->
                 IF n = VarName(1) THEN OuterUpval(0, 1) ELSE LocalUpval(1, 0)],
             <<>>, FALSE)

FuncInfos ==
    {FuncInfo(n, m, <<>>, MainUpvalues, <<>>, v) : n \in {0, 1}, m \in RegCounts, v \in BOOLEAN}
    \cup {FuncInfo(0, 2, ks, MainUpvalues, <<>>, TRUE) : ks \in ConstPools}
    \cup {FuncInfo(0, m, <<LuaInt(1), LuaFloat(F_One)>>, MainUpvalues, <<Swapped>>, TRUE) :
            m \in RegCounts \ {0, 1}}
    \cup {FuncInfo(0, 3, <<>>, MainUpvalues,
                   <<FuncInfo(0, 2, <<LuaNil>>, NoUpvalues, <<>>, TRUE), Swapped>>, FALSE),
          DeepCapture}

-----------------------------------------------------------------------------
(* testDump: the chunk is compiled, and the prototype is dumped            *)

\* compiler.Compile ends in toProto of the main function's funcInfo
Compile(f) ==
    /\ pc = "idle"
    /\ fi = NoFuncInfo
    /\ fi' = f
    /\ proto' = toProto(f)
    /\ pc' = "toProto"
    /\ UNCHANGED <<d, file, ret, undumped, str>>

\* Dump(proto)
DumpCompiled ==
    /\ pc = "toProto"
    /\ d' = newDumpState(DumpOrder)
    /\ pc' = "Dump"
    /\ UNCHANGED <<proto, file, ret, undumped, str, fi>>

GenNext ==
    \/ \E f \in FuncInfos : Compile(f) /\ UNCHANGED <<tableVars, hostVars, parseVars, procVars>>
    \/ DumpCompiled /\ UNCHANGED <<tableVars, hostVars, parseVars, procVars>>
    \/ DumpHeaderStep /\ UNCHANGED <<tableVars, restVars>>
    \/ DumpSizeUpvaluesStep /\ UNCHANGED <<tableVars, restVars>>
    \/ DumpFunctionStep /\ UNCHANGED <<tableVars, restVars>>
    \/ DumpReturn /\ UNCHANGED <<tableVars, restVars>>
    \/ TestUnDump /\ UNCHANGED <<tableVars, restVars>>

GenSpec == ChunkInit /\ [][GenNext]_vars

-----------------------------------------------------------------------------
(* The Lua state a host function works on                                  *)

\* the two tables of the model: the table t, and one never written to
TableRef(id) == [t |-> "table", id |-> id]

GoFunction(name) == [t |-> "function", go |-> name]

\* a Lua closure, by what its body does: "echo" returns its arguments, "none"
\* returns nothing, "error" calls error with its first argument, "fails" ends in
\* a runtime failure
LuaFunction(body) == [t |-> "function", lua |-> body]

NoPanic == [none |-> TRUE]

\* the error value of a runtime failure: a message
RuntimeError(code) == LuaStr(<<33, code>>)

NotAFunction == RuntimeError(1)
TableExpected == RuntimeError(2)
StackUnderflow == RuntimeError(3)
InvalidKeyToNext == RuntimeError(4)
LuaFailure == RuntimeError(5)

LUA_TNIL == 0

LUA_OK == 0

LUA_ERRRUN == 2

TypeCode(v) ==
    CASE v.t = "nil" -> LUA_TNIL
      [] v.t = "bool" -> 1
      [] v.t \in {"int64", "float64"} -> 3
      [] v.t = "string" -> 4
      [] v.t = "table" -> 5
      [] v.t = "function" -> 6

\* a frame of a host function: its stack, the tables and their metatables, the
\* pending panic, what the last API call returned, the count the function
\* returned (-1 before it returns), and the line print wrote
NewFrame(stack, tbls, meta) ==
    [stack |-> stack, tbls |-> tbls, meta |-> meta, panic |-> NoPanic,
     found |-> FALSE, type |-> LUA_TNIL, status |-> LUA_OK, n |-> -1, out |-> <<>>]

Panicked(L) == L.panic # NoPanic

Raise(L, v) == IF Panicked(L) THEN L ELSE [L EXCEPT !.panic = v]

GetTop(L) == Len(L.stack)

AbsIndex(L, idx) == IF idx >= 0 THEN idx ELSE idx + Len(L.stack) + 1

\* the value at an index; nil at an index that holds nothing
StackGet(L, idx) ==
    LET i == AbsIndex(L, idx)
    IN  IF 1 <= i /\ i <= Len(L.stack) THEN L.stack[i] ELSE LuaNil

Push(L, v) == IF Panicked(L) THEN L ELSE [L EXCEPT !.stack = Append(L.stack, v)]

PushNil(L) == Push(L, LuaNil)

PushBoolean(L, b) == Push(L, LuaBool(b))

PushInteger(L, i) == Push(L, LuaInt(i))

PushGoFunction(L, name) == Push(L, GoFunction(name))

PushValue(L, idx) == Push(L, StackGet(L, idx))

\* the stack cut or filled with nils to idx values
SetTop(L, idx) ==
    IF Panicked(L) THEN L
    ELSE LET n == AbsIndex(L, idx)
         IN  IF n < 0 THEN Raise(L, StackUnderflow)
             ELSE [L EXCEPT !.stack = [i \in 1..n |-> IF i <= Len(L.stack) THEN L.stack[i] ELSE LuaNil]]

Pop(L) ==
    IF Panicked(L) THEN L
    ELSE IF L.stack = <<>> THEN Raise(L, StackUnderflow)
         ELSE [L EXCEPT !.stack = SubSeq(L.stack, 1, Len(L.stack) - 1)]

\* the top value moved to idx, the values from idx on shifted up
Insert(L, idx) ==
    IF Panicked(L) THEN L
    ELSE LET i == AbsIndex(L, idx)
             n == Len(L.stack)
         IN  IF i < 1 \/ i > n THEN Raise(L, StackUnderflow)
             ELSE [L EXCEPT !.stack = SubSeq(L.stack, 1, i - 1) \o <<L.stack[n]>>
                                        \o SubSeq(L.stack, i, n - 1)]

\* ToInteger: the integer a value converts to, 0 when it does not
ToInteger(L, idx) ==
    LET v == StackGet(L, idx)
    IN  IF v.t = "int64" THEN v.i
        ELSE IF v.t = "float64" /\ FloatToInteger(v.bits).ok THEN FloatToInteger(v.bits).i
        ELSE 0

\* GetI: pushes t[i] of the table at idx and returns its type
GetI(L, idx, i) ==
    IF Panicked(L) THEN L
    ELSE LET tv == StackGet(L, idx)
         IN  IF tv.t # "table" THEN Raise(L, TableExpected)
             ELSE LET v == get(L.tbls[tv.id], LuaInt(i))
                  IN  [Push(L, v) EXCEPT !.type = TypeCode(v)]

\* Next: pops a key, and pushes the key after it in the table at idx and its
\* value; returns false, and pushes nothing, after the last key
Next(L, idx, order) ==
    IF Panicked(L) THEN L
    ELSE LET tv == StackGet(L, idx)
         IN  IF tv.t # "table" THEN Raise(L, TableExpected)
             ELSE IF L.stack = <<>> THEN Raise(L, StackUnderflow)
             ELSE LET key == L.stack[Len(L.stack)]
                      tb == L.tbls[tv.id]
                      r == nextKey(tb, key, IF needsInitKeys(tb, key) /\ tv.id = 1
                                            THEN order ELSE <<>>)
                      L1 == [Pop(L) EXCEPT !.tbls[tv.id] = r.self]
                  IN  IF r.panic THEN Raise(L1, InvalidKeyToNext)
                      ELSE IF r.ret # LuaNil
                           THEN [Push(Push(L1, r.ret), get(r.self, r.ret)) EXCEPT !.found = TRUE]
                           ELSE [L1 EXCEPT !.found = FALSE]

\* GetMetatable: pushes the metatable of the value at idx, if it has one
GetMetatable(L, idx) ==
    IF Panicked(L) THEN L
    ELSE LET v == StackGet(L, idx)
         IN  IF v.t = "table" /\ L.meta[v.id] # LuaNil
             THEN [Push(L, L.meta[v.id]) EXCEPT !.found = TRUE]
             ELSE [L EXCEPT !.found = FALSE]

\* SetMetatable: pops a table or nil and makes it the metatable of the value at idx
SetMetatable(L, idx) ==
    IF Panicked(L) THEN L
    ELSE IF L.stack = <<>> THEN Raise(L, StackUnderflow)
    ELSE LET v == StackGet(L, idx)
             mt == L.stack[Len(L.stack)]
             L1 == Pop(L)
         IN  IF mt.t \notin {"nil", "table"} THEN Raise(L1, TableExpected)
             ELSE IF v.t = "table" THEN [L1 EXCEPT !.meta[v.id] = mt]
             ELSE L1

\* Error: pops the error value and raises it
Error(L) ==
    IF Panicked(L) THEN L
    ELSE IF L.stack = <<>> THEN Raise(L, StackUnderflow)
    ELSE Raise(Pop(L), L.stack[Len(L.stack)])

\* a host function returns n
Return(L, n) == IF Panicked(L) THEN L ELSE [L EXCEPT !.n = n]

\* the body of a Lua closure called with args
CallLua(body, args) ==
    CASE body = "echo" -> [results |-> args, panic |-> NoPanic]
      [] body = "none" -> [results |-> <<>>, panic |-> NoPanic]
      [] body = "error" -> [results |-> <<>>, panic |-> IF args = <<>> THEN LuaNil ELSE args[1]]
      [] body = "fails" -> [results |-> <<>>, panic |-> LuaFailure]

-----------------------------------------------------------------------------
(* The host functions main registers                                       *)

\* what print writes for one argument: a boolean or a string (or number) as it
\* is, the name of the type of anything else
Printed(v) == IF v.t \in {"bool", "string", "int64", "float64"} THEN v ELSE [typeName |-> v.t]

\* the results requested of a call: all of them, or n, nil filling the missing
Adjust(results, n) ==
    IF n < 0 THEN results
    ELSE [i \in 1..n |-> IF i <= Len(results) THEN results[i] ELSE LuaNil]

clock(L, env) == Return(PushInteger(L, env.time), 1)

print(L) == Return([L EXCEPT !.out = [i \in 1..GetTop(L) |-> Printed(L.stack[i])]], 0)

getMetatable(L) ==
    LET L1 == GetMetatable(L, 1)
    IN  Return(IF L1.found THEN L1 ELSE PushNil(L1), 1)

setMetatable(L) == Return(SetMetatable(L, 1), 1)

next(L, env) ==
    LET L1 == SetTop(L, 2)
        L2 == Next(L1, 1, env.order)
    IN  IF L2.found THEN Return(L2, 2) ELSE Return(PushNil(L2), 1)

pairs(L) == Return(PushNil(PushValue(PushGoFunction(L, "next"), 1)), 3)

iPairs(L) == Return(PushInteger(PushValue(PushGoFunction(L, "_iPairsAux"), 1), 0), 3)

\* the iteration function without the step to the next index
_iPairsAuxSameIndex(L) ==
    LET i == ToInteger(L, 2)
        L2 == GetI(PushInteger(L, i), 1, i)
    IN  IF L2.type = LUA_TNIL THEN Return(L2, 1) ELSE Return(L2, 2)

_iPairsAux(L) ==
    LET i == ToInteger(L, 2) + 1
        L2 == GetI(PushInteger(L, i), 1, i)
    IN  IF L2.type = LUA_TNIL THEN Return(L2, 1) ELSE Return(L2, 2)

error(L) == Error(L)

RECURSIVE RunGo(_, _, _)
RECURSIVE Call(_, _, _, _)
RECURSIVE PCall(_, _, _, _, _)
RECURSIVE pCall(_, _)

\* Call: the function below its nArgs arguments is called; function and
\* arguments are popped, the results pushed. A host function runs on a frame of
\* its own that holds the arguments; its results are the top n values of it.
Call(L, nArgs, nResults, env) ==
    IF Panicked(L) THEN L
    ELSE LET top == Len(L.stack)
             fnIdx == top - nArgs
             f == IF fnIdx <= top THEN StackGet(L, fnIdx) ELSE LuaNil
             args == SubSeq(L.stack, fnIdx + 1, top)
             below == SubSeq(L.stack, 1, fnIdx - 1)
         IN  IF f.t # "function" THEN Raise(L, NotAFunction)
             ELSE IF "lua" \in DOMAIN f
             THEN LET r == CallLua(f.lua, args)
                  IN  IF r.panic # NoPanic
                      THEN [L EXCEPT !.stack = below, !.panic = r.panic]
                      ELSE [L EXCEPT !.stack = below \o Adjust(r.results, nResults)]
             ELSE LET F == RunGo(f.go, [NewFrame(args, L.tbls, L.meta) EXCEPT !.out = L.out], env)
                      L1 == [L EXCEPT !.stack = below, !.tbls = F.tbls, !.meta = F.meta,
                                      !.out = F.out]
                  IN  IF Panicked(F) THEN [L1 EXCEPT !.panic = F.panic]
                      ELSE IF F.n < 0 \/ F.n > Len(F.stack) THEN [L1 EXCEPT !.panic = StackUnderflow]
                      ELSE [L1 EXCEPT !.stack = below \o
                               Adjust(SubSeq(F.stack, Len(F.stack) - F.n + 1, Len(F.stack)), nResults)]

\* PCall: Call, with an error caught: the stack is cut back to the call site,
\* the error value pushed, and a status other than LUA_OK returned
PCall(L, nArgs, nResults, msgh, env) ==
    IF Panicked(L) THEN L
    ELSE LET r == Call(L, nArgs, nResults, env)
             site == Len(L.stack) - nArgs - 1
         IN  IF Panicked(r)
             THEN [r EXCEPT !.stack = SubSeq(L.stack, 1, site) \o <<r.panic>>,
                            !.panic = NoPanic, !.status = LUA_ERRRUN]
             ELSE [r EXCEPT !.status = LUA_OK]

\* pcall that leaves the status above the results
pCallStatusOnTop(L, env) ==
    LET nArgs == GetTop(L) - 1
        L1 == PCall(L, nArgs, -1, 0, env)
        L2 == PushBoolean(L1, L1.status = LUA_OK)
    IN  Return(L2, GetTop(L2))

pCall(L, env) ==
    LET nArgs == GetTop(L) - 1
        L1 == PCall(L, nArgs, -1, 0, env)
        L2 == PushBoolean(L1, L1.status = LUA_OK)
        L3 == Insert(L2, 1)
    IN  Return(L3, GetTop(L3))

\* the Go function registered, or pushed, under a name
RunGo(name, L, env) ==
    CASE name = "clock" -> clock(L, env)
      [] name = "print" -> print(L)
      [] name = "getMetatable" -> getMetatable(L)
      [] name = "setMetatable" -> setMetatable(L)
      [] name = "next" -> next(L, env)
      [] name = "pairs" -> pairs(L)
      [] name = "iPairs" -> iPairs(L)
      [] name = "_iPairsAux" -> _iPairsAux(L)
      [] name = "error" -> error(L)
      [] name = "pCall" -> pCall(L, env)

\* the names under which main registers them
Registered ==
    {"print", "getMetatable", "setMetatable", "next", "pairs", "iPairs", "error", "pCall", "clock"}

-----------------------------------------------------------------------------
(* Host functions called, one call after the other                         *)

\* state.New(): no call made, no metatable set, a second table that is empty
stateNew ==
    [fn |-> "none", args |-> <<>>, stack |-> <<>>, n |-> -1, panic |-> NoPanic,
     out |-> <<>>, meta |-> [id \in {1, 2} |-> LuaNil], t2 |-> newLuaTable]

Tables == [id \in {1, 2} |-> IF id = 1 THEN t ELSE host.t2]

\* the frame a host function leaves when called with args
Invoke(fn, args, env) == RunGo(fn, NewFrame(args, Tables, host.meta), env)

\* the call is over: its frame is kept in host, the table in t
Called(fn, args, F) ==
    /\ host' = [fn |-> fn, args |-> args, stack |-> F.stack, n |-> F.n, panic |-> F.panic,
                out |-> F.out, meta |-> F.meta, t2 |-> F.tbls[2]]
    /\ t' = F.tbls[1]

\* the values the caller adopts: the top n values of the frame
Results(h) == SubSeq(h.stack, Len(h.stack) - h.n + 1, Len(h.stack))

A == LuaStr(<<97>>)

X == LuaStr(<<120>>)

ArgVals == {LuaNil, LuaInt(1), TableRef(1), TableRef(2)}

Callees ==
    {LuaFunction(b) : b \in {"echo", "none", "error", "fails"}}
    \cup {GoFunction(g) : g \in Registered \cup {"_iPairsAux"}}
    \cup {LuaNil, LuaInt(1)}

\* the calls a chunk makes: a host function and its arguments
HostCalls ==
    {<<"clock", a>> : a \in {<<>>, <<LuaInt(1)>>}}
    \cup {<<"print", a>> : a \in {<<>>, <<LuaBool(TRUE)>>, <<A, LuaInt(1)>>,
                                  <<LuaNil, TableRef(1), GoFunction("print")>>}}
    \cup {<<g, a>> : g \in {"getMetatable", "pairs", "iPairs"},
                     a \in {<<>>, <<TableRef(1), LuaInt(1)>>} \cup {<<v>> : v \in ArgVals}}
    \cup {<<"setMetatable", a>> :
            a \in {<<>>, <<TableRef(1)>>, <<LuaNil>>, <<LuaNil, LuaNil>>,
                   <<TableRef(1), TableRef(2)>>, <<TableRef(1), TableRef(1)>>,
                   <<TableRef(1), LuaNil>>, <<TableRef(1), LuaInt(1)>>, <<LuaInt(1), TableRef(2)>>,
                   <<TableRef(1), TableRef(2), LuaNil>>, <<TableRef(1), TableRef(2), LuaInt(1)>>}}
    \cup {<<"next", a>> : a \in {<<>>, <<LuaNil>>, <<TableRef(2)>>, <<LuaInt(1), LuaInt(1)>>,
                                 <<TableRef(1)>>, <<TableRef(1), LuaNil>>, <<TableRef(1), LuaNil, A>>}
                                \cup {<<TableRef(1), k>> : k \in {LuaInt(1), LuaInt(2), A}}}
    \cup {<<"error", a>> : a \in {<<>>, <<A>>, <<LuaNil>>, <<TableRef(1), A>>}}
    \cup {<<"pCall", a>> : a \in {<<>>}
                                \cup {<<f>> \o b : f \in Callees,
                                                   b \in {<<>>, <<A>>, <<TableRef(1), TableRef(2)>>}}
                                \cup {<<GoFunction("pCall"), f, A>> :
                                         f \in {GoFunction("error"), LuaFunction("echo")}}}

Times == {1, 2}

\* what a call depends on besides its arguments: the order in which the map is
\* ranged over, and the time
EnvsFor(fn) ==
    {[order |-> o, time |-> c] :
        o \in (IF fn \in {"next", "pCall"} THEN Orders(t._map) ELSE {<<>>}),
        c \in (IF fn = "clock" THEN Times ELSE {1})}

CallHost(fn, args) ==
    /\ loop = NoLoop
    /\ \E env \in EnvsFor(fn) : Called(fn, args, Invoke(fn, args, env))
    /\ UNCHANGED <<op, loop>>

\* the tables a chunk has built before the calls
HostTables ==
    {newLuaTable,
     put(put(newLuaTable, LuaInt(1), LuaInt(10)), A, X)}

HostInit ==
    /\ ChunkIdle
    /\ fi = NoFuncInfo /\ loop = NoLoop /\ parse = NoParse /\ dbp = NoTarget
    /\ host = stateNew
    /\ t \in HostTables
    /\ op = [name |-> "new", key |-> LuaNil, val |-> LuaNil, ret |-> LuaNil, panic |-> FALSE]

HostNext ==
    \E c \in HostCalls : CallHost(c[1], c[2]) /\ UNCHANGED <<chunkVars, genVars, parseVars, procVars>>

HostSpec == HostInit /\ [][HostNext]_vars

-----------------------------------------------------------------------------
(* The generic for loops of test3.lua: for k, v in pairs(t), in ipairs(t)  *)

LoopKeys == IntKeys \cup {A}

LoopVals == {LuaNil, LuaInt(10), X}

LoopOver == IF loop.kind = "none" THEN TRUE ELSE loop.done

\* the explist is evaluated: the iteration function, the state and the first
\* value of the control variable
ForPrep(kind, fn, F) ==
    LET r == Adjust(Results(F), 3)
    IN  /\ Called(fn, <<TableRef(1)>>, F)
        /\ loop' = [kind |-> kind, f |-> r[1], s |-> r[2], ctl |-> r[3], visits |-> <<>>,
                    done |-> FALSE, err |-> FALSE]

ForStart(kind) ==
    LET fn == IF kind = "pairs" THEN "pairs" ELSE "iPairs"
    IN  /\ LoopOver
        /\ ForPrep(kind, fn, Invoke(fn, <<TableRef(1)>>, [order |-> <<>>, time |-> 1]))
        /\ UNCHANGED op

\* one round, F being the frame the iteration function leaves: a first result of
\* nil ends the loop, any other becomes the control variable and the body runs
\* with the first two results
ForRound(F) ==
    LET r == Adjust(Results(F), 2)
    IN  /\ Called(loop.f.go, <<loop.s, loop.ctl>>, F)
        /\ loop' = IF Panicked(F) \/ F.n > Len(F.stack)
                   THEN [loop EXCEPT !.done = TRUE, !.err = TRUE]
                   ELSE IF r[1] = LuaNil THEN [loop EXCEPT !.done = TRUE]
                   ELSE [loop EXCEPT !.ctl = r[1], !.visits = Append(@, <<r[1], r[2]>>)]

\* the iteration function is called with the state and the control variable
ForStep ==
    /\ loop.kind # "none"
    /\ ~loop.done
    /\ \E env \in EnvsFor(loop.f.go) : ForRound(Invoke(loop.f.go, <<loop.s, loop.ctl>>, env))
    /\ UNCHANGED op

\* an assignment to a field of t, between two loops
LoopPut(key, val) ==
    /\ LoopOver
    /\ Put(key, val)
    /\ loop' = NoLoop
    /\ UNCHANGED host

LoopInit ==
    /\ ChunkIdle
    /\ fi = NoFuncInfo /\ loop = NoLoop /\ parse = NoParse /\ dbp = NoTarget
    /\ host = stateNew
    /\ t = newLuaTable
    /\ op = [name |-> "new", key |-> LuaNil, val |-> LuaNil, ret |-> LuaNil, panic |-> FALSE]

LoopNext ==
    \/ \E key \in LoopKeys, val \in LoopVals :
          LoopPut(key, val) /\ UNCHANGED <<chunkVars, genVars, parseVars, procVars>>
    \/ \E kind \in {"pairs", "ipairs"} : ForStart(kind) /\ UNCHANGED <<chunkVars, genVars, parseVars, procVars>>
    \/ ForStep /\ UNCHANGED <<chunkVars, genVars, parseVars, procVars>>

LoopSpec == LoopInit /\ [][LoopNext]_vars

-----------------------------------------------------------------------------
(* The parser: Parse, over the token stream of the lexer                   *)

TOKEN_EOF == "EOF"

TOKEN_SEP_SEMI == ";"

TOKEN_KW_BREAK == "break"

TOKEN_KW_DO == "do"

TOKEN_KW_END == "end"

\* what the lexer meets on malformed input
TOKEN_ILLEGAL == "illegal"

NoBlock == [none |-> TRUE]

Block(stats) == [Stats |-> stats]

EmptyStat == [stat |-> "empty"]

BreakStat == [stat |-> "break"]

DoStat(block) == [stat |-> "do", Block |-> block]

\* a chunk is given by its tokens; the lexer has consumed pos of them
NewLexer(chunk) == [chunk |-> chunk, pos |-> 0]

LookAhead(lexer) ==
    IF lexer.pos >= Len(lexer.chunk) THEN TOKEN_EOF ELSE lexer.chunk[lexer.pos + 1]

NextToken(lexer) ==
    IF lexer.pos >= Len(lexer.chunk) THEN lexer ELSE [lexer EXCEPT !.pos = @ + 1]

Parsed(lexer, node) == [lexer |-> lexer, node |-> node, panic |-> ""]

SyntaxError(lexer) ==
    [lexer |-> lexer, node |-> NoBlock,
     panic |-> IF LookAhead(lexer) = TOKEN_ILLEGAL THEN "lexical error" ELSE "syntax error"]

NextTokenOfKind(lexer, kind) ==
    IF LookAhead(lexer) = kind THEN Parsed(NextToken(lexer), kind) ELSE SyntaxError(lexer)

RECURSIVE parseBlock(_), parseStats(_, _), parseStat(_)

parseStat(lexer) ==
    LET kind == LookAhead(lexer)
    IN  CASE kind = TOKEN_SEP_SEMI -> Parsed(NextToken(lexer), EmptyStat)
          [] kind = TOKEN_KW_BREAK -> Parsed(NextToken(lexer), BreakStat)
          [] kind = TOKEN_KW_DO ->
                LET b == parseBlock(NextToken(lexer))
                    e == NextTokenOfKind(b.lexer, TOKEN_KW_END)
                IN  IF b.panic # "" THEN b
                    ELSE IF e.panic # "" THEN e
                    ELSE Parsed(e.lexer, DoStat(b.node))
          [] OTHER -> SyntaxError(lexer)

parseStats(lexer, stats) ==
    IF LookAhead(lexer) \in {TOKEN_EOF, TOKEN_KW_END} THEN Parsed(lexer, stats)
    ELSE LET s == parseStat(lexer)
         IN  IF s.panic # "" THEN s ELSE parseStats(s.lexer, Append(stats, s.node))

parseBlock(lexer) ==
    LET s == parseStats(lexer, <<>>)
    IN  IF s.panic # "" THEN s ELSE Parsed(s.lexer, Block(s.node))

\* the block is returned whatever follows it
ParseAnyRest(chunk) ==
    LET lexer == NewLexer(chunk)
    IN  parseBlock(lexer)

Parse(chunk) ==
    LET lexer == NewLexer(chunk)
        block == parseBlock(lexer)
        eof == NextTokenOfKind(block.lexer, TOKEN_EOF)
    IN  IF block.panic # "" THEN block
        ELSE IF eof.panic # "" THEN eof
        ELSE Parsed(eof.lexer, block.node)

MaxTokens == 4

Tokens == {TOKEN_SEP_SEMI, TOKEN_KW_BREAK, TOKEN_KW_DO, TOKEN_KW_END, TOKEN_ILLEGAL}

Chunks == UNION {[1..n -> Tokens] : n \in 0..MaxTokens}

\* ast := parser.Parse(chunk, chunkName)
TestParser(chunk) ==
    LET ast == Parse(chunk)
    IN  /\ parse = NoParse
        /\ parse' = [pc |-> "Parse", chunk |-> chunk, ast |-> ast.node, panic |-> ast.panic,
                     pos |-> ast.lexer.pos, out |-> NoBlock]

\* println(string(b)), reached when Parse did not panic
TestParserPrint ==
    /\ parse.pc = "Parse"
    /\ parse.panic = ""
    /\ parse' = [parse EXCEPT !.pc = "println", !.out = parse.ast]

ParseNext ==
    \/ \E chunk \in Chunks : TestParser(chunk) /\ UNCHANGED <<chunkVars, tableVars, genVars, hostVars, procVars>>
    \/ TestParserPrint /\ UNCHANGED <<chunkVars, tableVars, genVars, hostVars, procVars>>

ParseSpec == ChunkInit /\ [][ParseNext]_vars

-----------------------------------------------------------------------------
(* Package proc: the target, its threads and breakpoints                   *)

\* th.Breakpoint(): the breakpoint a thread is stopped on (0: none), whether
\* its condition held, and whether it is an internal one
BreakpointState(bp, active, internal) ==
    [Breakpoint |-> bp, Active |-> active, Internal |-> internal]

NoBreakpoint == BreakpointState(0, FALSE, FALSE)

Thread(id, bpstate) == [ID |-> id, bp |-> bpstate]

\* dbp.SwitchThread(tid): tid becomes the current thread; switched notes the call
SwitchThread(T, tid) == [T EXCEPT !.currentThread = tid, !.switched = Append(@, tid)]

\* the first thread of the list on an active breakpoint (internal or any), 0 if none
FirstActive(threads, internal) ==
    LET on == {i \in 1..Len(threads) :
                  threads[i].bp.Active /\ (internal => threads[i].bp.Internal)}
    IN  IF on = {} THEN 0 ELSE CHOOSE i \in on : \A j \in on : i <= j

\* the trap thread is taken before the threads on an internal breakpoint
pickCurrentThreadTrapFirst(T, trapthread, threads) ==
    IF trapthread.bp.Active THEN SwitchThread(T, trapthread.ID)
    ELSE IF FirstActive(threads, TRUE) # 0
         THEN SwitchThread(T, threads[FirstActive(threads, TRUE)].ID)
    ELSE SwitchThread(T, trapthread.ID)

pickCurrentThread(T, trapthread, threads) ==
    IF FirstActive(threads, TRUE) # 0
    THEN SwitchThread(T, threads[FirstActive(threads, TRUE)].ID)
    ELSE IF trapthread.bp.Active THEN SwitchThread(T, trapthread.ID)
    ELSE IF FirstActive(threads, FALSE) # 0
         THEN SwitchThread(T, threads[FirstActive(threads, FALSE)].ID)
    ELSE SwitchThread(T, trapthread.ID)

MaxThreads == 3

\* what a stopped thread can report
BreakpointStates ==
    {NoBreakpoint} \cup {BreakpointState(1, a, i) : a \in BOOLEAN, i \in BOOLEAN}

\* the thread lists of a stopped target, in the order ThreadList gives them
ThreadLists ==
    UNION {{[i \in 1..n |-> Thread(i, bs[i])] : bs \in [1..n -> BreakpointStates]} :
              n \in 1..MaxThreads}

\* a target stopped by trapthread, before Continue picks the current thread
Stopped(threads, trap, cur) ==
    [pc |-> "stopped", threads |-> threads, trapthread |-> trap, currentThread |-> cur,
     switched |-> <<>>]

\* Continue: pickCurrentThread(dbp, trapthread, threads)
PickCurrentThread ==
    /\ dbp.pc = "stopped"
    /\ dbp' = [pickCurrentThread(dbp, dbp.threads[dbp.trapthread], dbp.threads)
                  EXCEPT !.pc = "picked"]

PickInit ==
    /\ ChunkIdle /\ TableIdle
    /\ fi = NoFuncInfo /\ host = NoCall /\ loop = NoLoop /\ parse = NoParse
    /\ \E threads \in ThreadLists :
          \E trap \in 1..Len(threads), cur \in 1..Len(threads) :
              dbp = Stopped(threads, trap, cur)

PickNext == PickCurrentThread /\ UNCHANGED <<chunkVars, tableVars, genVars, hostVars, parseVars>>

PickSpec == PickInit /\ [][PickNext]_vars

-----------------------------------------------------------------------------
(* Package proc: Next, Step, StepOut and Continue on a target               *)

UserBreakpoint == "UserBreakpoint"

NextBreakpoint == "NextBreakpoint"

NextDeferBreakpoint == "NextDeferBreakpoint"

StepBreakpoint == "StepBreakpoint"

IsInternal(kind) == kind # UserBreakpoint

ErrNil == "nil"

ErrNextWhileNexting == "next while nexting"

ErrThreadBlocked == "ErrThreadBlocked"

ErrNothingToStepOutTo == "nothing to stepout to"

BreakpointExistsError == "BreakpointExistsError"

ErrProcessExited == "ErrProcessExited"

ErrOther == "error"

\* the addresses breakpoints are set at
Addrs == {1, 2, 3}

NoBreakpoints == [a \in {} |-> UserBreakpoint]

\* dbp.Valid(): the process has not exited
Valid(T) == IF T.valid THEN ErrNil ELSE ErrProcessExited

InternalBreakpoints(T) == {a \in DOMAIN T.bps : IsInternal(T.bps[a])}

HasInternalBreakpoints(T) == InternalBreakpoints(T) # {}

ClearInternalBreakpoints(T) ==
    [T EXCEPT !.bps = [a \in DOMAIN T.bps \ InternalBreakpoints(T) |-> T.bps[a]]]

\* dbp.SetBreakpoint(addr, kind, cond): the target, the breakpoint set (0: nil)
\* and the error; fails tells whether the breakpoint can be written
SetBreakpoint(T, addr, kind, fails) ==
    IF addr \in DOMAIN T.bps THEN [T |-> T, bp |-> 0, err |-> BreakpointExistsError]
    ELSE IF fails THEN [T |-> T, bp |-> 0, err |-> ErrOther]
    ELSE [T |-> [T EXCEPT !.bps = [a \in DOMAIN T.bps \cup {addr} |->
                                       IF a = addr THEN kind ELSE T.bps[a]]],
          bp |-> addr, err |-> ErrNil]

\* next(dbp, stepInto, inlinedStepOut): it sets internal breakpoints at the
\* addresses env.set that are free, and returns env.err
proc_next(T, stepInto, inlinedStepOut, env) ==
    [T |-> [T EXCEPT !.bps = [a \in DOMAIN T.bps \cup env.set |->
                                 IF a \in DOMAIN T.bps THEN T.bps[a]
                                 ELSE IF stepInto THEN StepBreakpoint ELSE NextBreakpoint]],
     err |-> env.err]

\* a call returns err: the target is idle again
Returns(T, err) == [T EXCEPT !.pc = "idle", !.call.err = err]

ThreadAt(T, tid) == CHOOSE i \in 1..Len(T.threads) : T.threads[i].ID = tid

\* the breakpoint state of a thread stopped at addr (0: at no breakpoint)
StateAt(T, addr, active) ==
    IF addr = 0 THEN NoBreakpoint
    ELSE BreakpointState(addr, active, active /\ IsInternal(T.bps[addr]))

\* Continue up to its loop: the target is about to be resumed
Continue(T) ==
    IF Valid(T) # ErrNil THEN Returns(T, Valid(T))
    ELSE [T EXCEPT !.pc = "Continue"]

\* the internal breakpoints are left in place when next fails
NextWithoutClear(T, env) ==
    IF Valid(T) # ErrNil THEN Returns(T, Valid(T))
    ELSE IF HasInternalBreakpoints(T) THEN Returns(T, ErrNextWhileNexting)
    ELSE LET n == proc_next(T, FALSE, FALSE, env.next)
         IN  IF n.err # ErrNil THEN Returns(n.T, n.err)
             ELSE Continue(n.T)

proc_Next(T, env) ==
    IF Valid(T) # ErrNil THEN Returns(T, Valid(T))
    ELSE IF HasInternalBreakpoints(T) THEN Returns(T, ErrNextWhileNexting)
    ELSE LET n == proc_next(T, FALSE, FALSE, env.next)
         IN  IF n.err # ErrNil THEN Returns(ClearInternalBreakpoints(n.T), n.err)
             ELSE Continue(n.T)

Step(T, env) ==
    IF Valid(T) # ErrNil THEN Returns(T, Valid(T))
    ELSE IF HasInternalBreakpoints(T) THEN Returns(T, ErrNextWhileNexting)
    ELSE LET n == proc_next(T, TRUE, FALSE, env.next)
         IN  IF n.err \notin {ErrNil, ErrThreadBlocked}
             THEN Returns(ClearInternalBreakpoints(n.T), n.err)
             ELSE Continue(n.T)

\* StepOut after topframe: the deferred function clears the internal
\* breakpoints unless success was set
StepOutFrom(T, env) ==
    LET failed(T1, err) == Returns(ClearInternalBreakpoints(T1), err)
        n == proc_next(T, FALSE, TRUE, env.next)
        setsDefer == env.deferpc # 0 /\ ~env.atDefer
        b1 == IF setsDefer
              THEN SetBreakpoint(T, env.deferpc, NextDeferBreakpoint, env.deferpc \in env.fails)
              ELSE [T |-> T, bp |-> 0, err |-> ErrNil]
        b2 == IF env.ret # 0
              THEN SetBreakpoint(b1.T, env.ret, NextBreakpoint, env.ret \in env.fails)
              ELSE [T |-> b1.T, bp |-> 0, err |-> ErrNil]
        cur == ThreadAt(b2.T, b2.T.currentThread)
        T3 == IF b2.T.threads[cur].bp.Breakpoint = 0
              THEN [b2.T EXCEPT !.threads[cur].bp =
                       StateAt(b2.T, IF env.atBreakpoint \in DOMAIN b2.T.bps
                                      THEN env.atBreakpoint ELSE 0, TRUE)]
              ELSE b2.T
    IN  IF env.inlined
        THEN IF n.err # ErrNil THEN failed(n.T, n.err) ELSE Continue(n.T)
        ELSE IF env.deferpc # 0 /\ env.prologueErr THEN failed(T, ErrOther)
        ELSE IF b1.err \notin {ErrNil, BreakpointExistsError} THEN failed(b1.T, b1.err)
        ELSE IF env.ret = 0 /\ env.deferpc = 0 THEN failed(b1.T, ErrNothingToStepOutTo)
        ELSE IF b2.err \notin {ErrNil, BreakpointExistsError} THEN failed(b2.T, b2.err)
        ELSE Continue(T3)

StepOut(T, env) ==
    IF Valid(T) # ErrNil THEN Returns(T, Valid(T))
    ELSE IF HasInternalBreakpoints(T) THEN Returns(T, ErrNextWhileNexting)
    ELSE IF env.topframeErr THEN Returns(T, ErrOther)
    ELSE StepOutFrom(T, env)

\* one round of the loop of Continue, the target stopping as env tells
ContinueLoop(T, env) ==
    LET once == [T EXCEPT !.call.resumed = TRUE, !.threads = env.threads,
                          !.trapthread = env.trap, !.switched = <<>>]
        picked == pickCurrentThread(once, once.threads[ThreadAt(once, env.trap)], once.threads)
        curbp == picked.threads[ThreadAt(picked, picked.currentThread)].bp
        again(T1) == IF env.callInjectionDone THEN Returns(T1, ErrNil) ELSE T1
        free == Addrs \ DOMAIN picked.bps
        callee == IF env.flag /\ free # {} THEN CHOOSE x \in free : \A y \in free : x <= y ELSE 0
        into == SetBreakpoint(picked, callee, NextBreakpoint, FALSE)
    IN  IF env.manualStop THEN Returns(ClearInternalBreakpoints(T), ErrNil)
        ELSE IF env.exited
        THEN Returns([T EXCEPT !.call.resumed = TRUE, !.valid = FALSE], ErrProcessExited)
        ELSE IF curbp.Breakpoint = 0
        THEN IF env.flag THEN again(picked) ELSE Returns(picked, ErrNil)
        ELSE IF curbp.Active /\ curbp.Internal
        THEN IF picked.bps[curbp.Breakpoint] = StepBreakpoint
             THEN IF callee = 0 THEN again(picked)
                  ELSE IF into.err # ErrNil THEN Returns(into.T, into.err)
                  ELSE again(into.T)
             ELSE Returns(ClearInternalBreakpoints(picked), ErrNil)
        ELSE IF curbp.Active
        THEN Returns(IF env.flag THEN ClearInternalBreakpoints(picked) ELSE picked, ErrNil)
        ELSE again(picked)

\* a stopped target with the breakpoints bps, on which nothing was called yet
NewTarget(bps) ==
    [pc |-> "idle", valid |-> TRUE, bps |-> bps,
     threads |-> <<Thread(1, NoBreakpoint), Thread(2, NoBreakpoint)>>,
     trapthread |-> 1, currentThread |-> 1, switched |-> <<>>,
     call |-> [fn |-> "none", err |-> ErrNil, resumed |-> FALSE]]

\* fn is called on the stopped target
Entered(fn) == [dbp EXCEPT !.call = [fn |-> fn, err |-> "pending", resumed |-> FALSE]]

\* what next meets: the breakpoints it sets before it returns, and its error
NextEnvs == {[set |-> x, err |-> e] : x \in SUBSET {2, 3}, e \in {ErrNil, ErrThreadBlocked, ErrOther}}

NoNext == [set |-> {}, err |-> ErrNil]

\* what StepOut meets: topframe failing, an inlined frame, or a frame with a
\* deferred call (deferpc), a return address (ret) and breakpoints that fail
StepOutEnv(topframeErr, inlined, n, deferpc, atDefer, prologueErr, ret0, fails, atBreakpoint) ==
    [topframeErr |-> topframeErr, inlined |-> inlined, next |-> n, deferpc |-> deferpc,
     atDefer |-> atDefer, prologueErr |-> prologueErr, ret |-> ret0, fails |-> fails,
     atBreakpoint |-> atBreakpoint]

StepOutEnvs ==
    {StepOutEnv(TRUE, FALSE, NoNext, 0, FALSE, FALSE, 0, {}, 0)}
    \cup {StepOutEnv(FALSE, TRUE, n, 0, FALSE, FALSE, 0, {}, 0) : n \in NextEnvs}
    \cup {StepOutEnv(FALSE, FALSE, NoNext, dpc, FALSE, pe, r, fs, ab) :
             dpc \in {0, 1, 2}, pe \in BOOLEAN, r \in {0, 3}, fs \in SUBSET {2, 3}, ab \in {0, 3}}
    \cup {StepOutEnv(FALSE, FALSE, NoNext, 2, TRUE, FALSE, r, {}, 0) : r \in {0, 3}}

\* how the threads of T can be found stopped
ThreadStops(T) ==
    {NoBreakpoint} \cup {StateAt(T, a, active) : a \in DOMAIN T.bps, active \in BOOLEAN}

ContinueEnv(manualStop, exited, threads, trap, flag, callInjectionDone) ==
    [manualStop |-> manualStop, exited |-> exited, threads |-> threads, trap |-> trap,
     flag |-> flag, callInjectionDone |-> callInjectionDone]

ContinueEnvs(T) ==
    {ContinueEnv(TRUE, FALSE, T.threads, T.trapthread, FALSE, FALSE),
     ContinueEnv(FALSE, TRUE, T.threads, T.trapthread, FALSE, FALSE)}
    \cup {ContinueEnv(FALSE, FALSE, <<Thread(1, b1), Thread(2, b2)>>, trap, flag, done) :
             b1 \in ThreadStops(T), b2 \in ThreadStops(T), trap \in {1, 2},
             flag \in BOOLEAN, done \in BOOLEAN}

CallNext(env) ==
    /\ dbp.pc = "idle"
    /\ dbp' = proc_Next(Entered("Next"), env)

CallStep(env) ==
    /\ dbp.pc = "idle"
    /\ dbp' = Step(Entered("Step"), env)

CallStepOut(env) ==
    /\ dbp.pc = "idle"
    /\ dbp' = StepOut(Entered("StepOut"), env)

CallContinue ==
    /\ dbp.pc = "idle"
    /\ dbp' = Continue(Entered("Continue"))

ContinueRound(env) ==
    /\ dbp.pc = "Continue"
    /\ dbp' = ContinueLoop(dbp, env)

ProcInit ==
    /\ ChunkIdle /\ TableIdle
    /\ fi = NoFuncInfo /\ host = NoCall /\ loop = NoLoop /\ parse = NoParse
    /\ dbp \in {NewTarget(NoBreakpoints), NewTarget([a \in {1} |-> UserBreakpoint])}

ProcNext ==
    \/ \E n \in NextEnvs : CallNext([next |-> n]) /\ UNCHANGED <<chunkVars, tableVars, genVars, hostVars, parseVars>>
    \/ \E n \in NextEnvs : CallStep([next |-> n]) /\ UNCHANGED <<chunkVars, tableVars, genVars, hostVars, parseVars>>
    \/ \E env \in StepOutEnvs : CallStepOut(env) /\ UNCHANGED <<chunkVars, tableVars, genVars, hostVars, parseVars>>
    \/ CallContinue /\ UNCHANGED <<chunkVars, tableVars, genVars, hostVars, parseVars>>
    \/ \E env \in ContinueEnvs(dbp) : ContinueRound(env) /\ UNCHANGED <<chunkVars, tableVars, genVars, hostVars, parseVars>>

ProcSpec == ProcInit /\ [][ProcNext]_vars

-----------------------------------------------------------------------------
(* Properties of the chunk writer                                          *)

\* the sections of the log once dumpFunction has returned
FunctionDumped == pc \in {"dumpFunction", "return", "undumped"}

PartOrder ==
    <<"source", "lineDefined", "lastLineDefined", "numParams", "isVararg", "maxStackSize",
      "code", "constants", "upvalues", "protos", "lineInfo", "locVars", "upvalueNames">>

IsPrefix(a, b) == Len(a) <= Len(b) /\ SubSeq(b, 1, Len(a)) = a

\* the paths of the functions of a prototype tree
RECURSIVE FnPaths(_, _)
FnPaths(p, fn) ==
    {fn} \cup UNION {FnPaths(p.Protos[i], Append(fn, i)) : i \in 1..Len(p.Protos)}

RECURSIVE ProtoAt(_, _)
ProtoAt(p, fn) == IF fn = <<>> THEN p ELSE ProtoAt(p.Protos[Head(fn)], Tail(fn))

\* the positions in the log of the sections of function fn
EntriesOf(fn) ==
    {i \in 1..Len(d.log) : d.log[i].fn = fn /\ d.log[i].part \notin {"header", "sizeUpvalues"}}

EntryOf(fn, part) == CHOOSE i \in EntriesOf(fn) : d.log[i].part = part

\* the bytes of a section that holds no nested function: up to the next entry
SectionBytes(i) ==
    SubSeq(d.out, d.log[i].at + 1,
           IF i < Len(d.log) THEN d.log[i + 1].at ELSE Len(d.out))

RECURSIVE SameProto(_, _)
SameProto(a, b) ==
    /\ DOMAIN a = DOMAIN b
    /\ a.Code = b.Code
    /\ a.Constants = b.Constants
    /\ a.Upvalues = b.Upvalues
    /\ Len(a.Protos) = Len(b.Protos)
    /\ \A i \in 1..Len(a.Protos) : SameProto(a.Protos[i], b.Protos[i])

\* C1: reading back the bytes Dump wrote gives a prototype with the same
\* instructions, constants (value and type, in order), upvalue descriptors and
\* nested prototypes, at every depth.
C1_RoundTrip == pc = "undumped" => SameProto(undumped, proto)

C1_Witness ==
    /\ pc = "undumped"
    /\ proto.Source = <<>>
    /\ \E i \in 1..Len(proto.Protos) : Len(proto.Protos[i].Protos) > 0
    /\ SameProto(undumped, proto)

\* C2: the byte written right after the header, the size of upvalues of the main
\* function, is 1.
C2_SizeUpvaluesIsOne ==
    (pc \in {"dumpSizeUpvalues", "dumpFunction", "return", "undumped"})
        => \E i \in 1..Len(d.log) :
              d.log[i].part = "sizeUpvalues" /\ d.out[d.log[i].at + 1] = 1

\* C3: writeString emits 0x00 for the empty string, the byte len+1 and the bytes
\* for 1 <= len <= 0xFD, and 0xFF, len+1 in 8 little-endian bytes and the bytes
\* for len > 0xFD; nothing follows, and the first byte tells the form.
C3_WriteStringForms ==
    pc = "writeString" =>
        LET n == Len(str) IN
        /\ n = 0 => d.out = <<0>>
        /\ (1 <= n /\ n <= 253) => d.out = <<n + 1>> \o str
        /\ n > 253 =>
              d.out = <<255, (n + 1) % 256, ((n + 1) \div 256) % 256, 0, 0, 0, 0, 0, 0>> \o str
        /\ d.out[1] = 0 <=> n = 0
        /\ d.out[1] = 255 <=> n > 253

C3_Witness == pc = "writeString" /\ Len(str) = 254 /\ d.out[1] = 255 /\ Len(d.out) = 263

\* C4: a function block holds its thirteen parts in the order source, first
\* line, last line, numParams, isVararg, maxStack, code, constants, upvalues,
\* nested prototypes, line info, local variables, upvalue names, each once; a
\* nested prototype is a complete block of its own, written inside the
\* nested-prototypes part of its parent, in the order of Protos.
C4_FunctionBlockOrder ==
    FunctionDumped =>
        /\ \A i \in 1..Len(d.log) : d.log[i].fn \in FnPaths(proto, <<>>)
        /\ \A fn \in FnPaths(proto, <<>>) :
              LET es == EntriesOf(fn)
                  first == CHOOSE i \in es : \A j \in es : i <= j
              IN  /\ Cardinality(es) = Len(PartOrder)
                  /\ \A k \in 1..Len(PartOrder) :
                        \E i \in es :
                            /\ d.log[i].part = PartOrder[k]
                            /\ Cardinality({j \in es : j < i}) = k - 1
                  \* the block is contiguous: only its own nested blocks lie inside
                  /\ \A i \in 1..Len(d.log) :
                        (first <= i /\ i <= EntryOf(fn, "upvalueNames"))
                            => IsPrefix(fn, d.log[i].fn)
                  /\ fn # <<>> =>
                        LET parent == SubSeq(fn, 1, Len(fn) - 1)
                        IN  /\ EntryOf(parent, "protos") < first
                            /\ EntryOf(parent, "upvalues") < first
                            /\ EntryOf(fn, "upvalueNames") < EntryOf(parent, "lineInfo")
                            /\ fn[Len(fn)] > 1 =>
                                  EntryOf(Append(parent, fn[Len(fn)] - 1), "upvalueNames") < first

C4_Witness ==
    /\ pc = "dumpFunction"
    /\ \E i \in 1..Len(d.log) : Len(d.log[i].fn) = 2
    /\ \E i \in 1..Len(d.log) : d.log[i].fn = <<2>>

\* the encoding the format gives a string
StringForm(x) ==
    IF Len(x) = 0 THEN <<0>>
    ELSE IF Len(x) <= 253 THEN <<Len(x) + 1>> \o x
    ELSE <<255>> \o LowBytes(Len(x) + 1, 8) \o x

\* the encoding the format gives a constant: a tag, then the payload
ConstantForm(c) ==
    CASE c.t = "nil" -> <<0>>
      [] c.t = "bool" -> <<1, IF c.b THEN 1 ELSE 0>>
      [] c.t = "float64" -> <<3>> \o Reverse(c.bits)
      [] c.t = "int64" -> <<19>> \o LowBytes(c.i, 8)
      [] c.t = "string" -> <<IF Len(c.s) <= 253 THEN 4 ELSE 20>> \o StringForm(c.s)

\* C5: the constants section is the count and then, for every constant in pool
\* order, its tag and payload: nil 0; boolean 1 and a byte; float 3 and 8 bytes;
\* integer 0x13 and 8 bytes; string 4 (length <= 0xFD, one-byte length form) or
\* 0x14 (longer, 0xFF form) and the string encoding.
C5_ConstantTags ==
    FunctionDumped =>
        \A fn \in FnPaths(proto, <<>>) :
            LET ks == ProtoAt(proto, fn).Constants
                bytes == SectionBytes(EntryOf(fn, "constants"))
            IN  /\ bytes = LowBytes(Len(ks), 4) \o Flatten([i \in 1..Len(ks) |-> ConstantForm(ks[i])])
                /\ \A i \in 1..Len(ks) :
                      ks[i].t = "string" =>
                          LET form == ConstantForm(ks[i])
                          IN  (form[1] = 4 <=> form[2] # 255) /\ (form[1] = 20 <=> form[2] = 255)

C5_Witness ==
    /\ pc = "dumpFunction"
    /\ \E i, j \in 1..Len(proto.Constants) :
          /\ proto.Constants[i].t = "string" /\ Len(proto.Constants[i].s) = 254
          /\ proto.Constants[j].t = "string" /\ Len(proto.Constants[j].s) = 0
    /\ \E i \in 1..Len(proto.Constants) : proto.Constants[i].t = "nil"

\* the header of the format, byte by byte
HeaderForm ==
    <<27, 76, 117, 97, 83, 0, 25, 147, 13, 10, 26, 10, 4, 8, 4, 8, 8,
      120, 86, 0, 0, 0, 0, 0, 0,
      0, 0, 0, 0, 0, 40, 119, 64>>

\* C6: a chunk begins with the header, written once, before the size-of-upvalues
\* byte and the main function; the header carries version 0x53, format 0, the
\* sizes 4, 8, 4, 8, 8, the integer 0x5678 and the float 370.5 in 8 little-endian
\* bytes each; the multi-byte values of the chunk are little-endian.
C6_HeaderFirst ==
    (pc \in {"dumpHeader", "dumpSizeUpvalues", "dumpFunction", "return", "undumped"}) =>
        /\ d.log[1] = [part |-> "header", fn |-> <<>>, at |-> 0]
        /\ Cardinality({i \in 1..Len(d.log) : d.log[i].part = "header"}) = 1
        /\ SubSeq(d.out, 1, Len(HeaderForm)) = HeaderForm
        /\ Len(d.log) >= 2 =>
              d.log[2] = [part |-> "sizeUpvalues", fn |-> <<>>, at |-> Len(HeaderForm)]
        /\ Len(d.log) >= 3 =>
              d.log[3] = [part |-> "source", fn |-> <<>>, at |-> Len(HeaderForm) + 1]
        /\ FunctionDumped =>
              \A fn \in FnPaths(proto, <<>>) :
                  LET p == ProtoAt(proto, fn)
                  IN  /\ SectionBytes(EntryOf(fn, "lineDefined")) = LowBytes(p.LineDefined, 4)
                      /\ SectionBytes(EntryOf(fn, "lastLineDefined")) = LowBytes(p.LastLineDefined, 4)
                      /\ SubSeq(SectionBytes(EntryOf(fn, "code")), 1, 4) = LowBytes(Len(p.Code), 4)
        /\ pc \in {"return", "undumped"} => file = d.out

C6_Witness ==
    /\ pc = "return"
    /\ Len(d.log) > 3
    /\ proto.LastLineDefined > 0
    /\ SubSeq(file, 1, Len(HeaderForm)) = HeaderForm

-----------------------------------------------------------------------------
(* Properties of the table                                                 *)

StoredKeys == DOMAIN t._map

PutDone == op.name = "put" /\ ~op.panic

\* C7: no key is mapped to nil; put(k, v) with v # nil makes get(k) = v, and
\* put(k, nil) makes get(k) = nil and leaves k out of the stored keys.
C7_NoNilValues ==
    /\ \A k \in StoredKeys : t._map[k] # LuaNil
    /\ (PutDone /\ op.val # LuaNil) => get(t, op.key) = op.val
    /\ (PutDone /\ op.val = LuaNil) => (get(t, op.key) = LuaNil /\ op.key \notin StoredKeys)

C7_Witness ==
    /\ PutDone
    /\ op.val = LuaNil
    /\ op.key = LuaInt(1)
    /\ StoredKeys = {LuaStr(<<97>>)}

NilOrNaN(key) == key = LuaNil \/ key = LuaFloat(F_NaN)

\* C8: put with a nil or NaN key is rejected whatever the value, and the
\* rejected call leaves the entries, the changed flag and the key snapshot as
\* they were; no stored key is nil or NaN.
C8_BadKeyRejected ==
    /\ [](op.name = "put" => (op.panic <=> NilOrNaN(op.key)))
    /\ [](\A k \in StoredKeys : ~NilOrNaN(k))
    /\ [][(op'.name = "put" /\ NilOrNaN(op'.key)) => t' = t]_vars

C8_Witness ==
    /\ op.name = "put"
    /\ op.panic
    /\ op.key = LuaFloat(F_NaN)
    /\ op.val # LuaNil
    /\ t.keys.made
    /\ ~t.changed
    /\ Cardinality(StoredKeys) = 2

\* a float of the inputs with an integer value, and that integer
IntegralPairs == {<<LuaFloat(F_One), LuaInt(1)>>, <<LuaFloat(F_Two), LuaInt(2)>>}

IntegralFloats == {LuaFloat(f) : f \in {F_Zero, F_NegZero, F_One, F_Two, F_Three, F_Four}}

\* C9: an integral float key and the integer of the same value address one
\* entry: after put(f, v) get(i) = v, after put(i, v) get(f) = v, and no stored
\* key is an integral float.
C9_FloatKeysNormalized ==
    /\ StoredKeys \cap IntegralFloats = {}
    /\ \A pr \in IntegralPairs :
          /\ get(t, pr[1]) = get(t, pr[2])
          /\ (PutDone /\ op.key \in {pr[1], pr[2]}) =>
                (get(t, pr[1]) = op.val /\ get(t, pr[2]) = op.val)

C9_Witness ==
    /\ PutDone
    /\ op.key = LuaFloat(F_One)
    /\ op.val = LuaStr(<<120>>)
    /\ get(t, LuaInt(1)) = LuaStr(<<120>>)
    /\ LuaFloat(F_OneAndHalf) \in StoredKeys

\* n is a border of the table: t[n] # nil and t[n+1] = nil, or n = 0 and t[1] = nil
IsBorder(n) ==
    \/ n = 0 /\ get(t, LuaInt(1)) = LuaNil
    \/ n > 0 /\ get(t, LuaInt(n)) # LuaNil /\ get(t, LuaInt(n + 1)) = LuaNil

\* C10: the length of the table is one of its borders.
C10_LenIsBorder == op.name = "len" => IsBorder(op.ret.i)

\* C11: a key returned by nextKey is a key of the table at the time of the call,
\* also when a put added or removed a key since the snapshot was made.
C11_SnapshotFollowsPuts ==
    (op.name = "nextKey" /\ ~op.panic /\ op.ret # LuaNil) => op.ret \in StoredKeys

-----------------------------------------------------------------------------
(* Properties of the code generator                                        *)

ProtoCompiled == pc # "idle" /\ fi # NoFuncInfo

RECURSIVE FuncInfoAt(_, _)
FuncInfoAt(f, fn) == IF fn = <<>> THEN f ELSE FuncInfoAt(f.subFuncs[Head(fn)], Tail(fn))

ParentOf(fn) == SubSeq(fn, 1, Len(fn) - 1)

\* C13: when the instructions of a funcInfo use only registers below maxRegs,
\* MaxStackSize of its prototype is at least maxRegs and at least 2, and above
\* every register the instructions use, for maxRegs of 256 and more as well.
C13_StackCoversRegisters ==
    ProtoCompiled =>
        \A fn \in FnPaths(proto, <<>>) :
            LET f == FuncInfoAt(fi, fn)
                p == ProtoAt(proto, fn)
            IN  (\A r \in UsedRegs(f.insts) : r < f.maxRegs) =>
                    /\ p.MaxStackSize >= f.maxRegs
                    /\ p.MaxStackSize >= 2
                    /\ \A r \in UsedRegs(p.Code) : r < p.MaxStackSize

\* C14: the descriptor of every captured variable is at position index of the
\* upvalue table, (1, locVarSlot) for a local of the enclosing function and
\* (0, upvalIndex) otherwise; every position is filled by one variable; idx is
\* below the enclosing function's MaxStackSize, or its number of upvalues.
C14_UpvalueDescriptors ==
    ProtoCompiled =>
        \A fn \in FnPaths(proto, <<>>) :
            LET f == FuncInfoAt(fi, fn)
                p == ProtoAt(proto, fn)
            IN  /\ Len(p.Upvalues) = Cardinality(DOMAIN f.upvalues)
                /\ \A n \in DOMAIN f.upvalues :
                      LET uv == f.upvalues[n]
                      IN  p.Upvalues[uv.index + 1] =
                              IF uv.locVarSlot >= 0
                              THEN [Instack |-> 1, Idx |-> uv.locVarSlot]
                              ELSE [Instack |-> 0, Idx |-> uv.upvalIndex]
                /\ \A i \in 1..Len(p.Upvalues) :
                      Cardinality({n \in DOMAIN f.upvalues : f.upvalues[n].index = i - 1}) = 1
                /\ fn # <<>> =>
                      LET outer == ProtoAt(proto, ParentOf(fn))
                      IN  \A i \in 1..Len(p.Upvalues) :
                              IF p.Upvalues[i].Instack = 1
                              THEN p.Upvalues[i].Idx < outer.MaxStackSize
                              ELSE p.Upvalues[i].Idx < Len(outer.Upvalues)

\* C15: the constant with pool index k is Constants[k], value and type kept (the
\* integer 1 and the float 1.0 are two entries); the pool has one entry for
\* each constant and every index holds exactly one of them.
C15_ConstantsAtIndex ==
    ProtoCompiled =>
        \A fn \in FnPaths(proto, <<>>) :
            LET f == FuncInfoAt(fi, fn)
                p == ProtoAt(proto, fn)
            IN  /\ Len(p.Constants) = Cardinality(DOMAIN f.constants)
                /\ \A c \in DOMAIN f.constants : p.Constants[f.constants[c] + 1] = c
                /\ \A i \in 1..Len(p.Constants) :
                      Cardinality({c \in DOMAIN f.constants : f.constants[c] = i - 1}) = 1
                /\ \A i, j \in 1..Len(p.Constants) : i # j => p.Constants[i] # p.Constants[j]

C15_Witness ==
    /\ pc = "toProto"
    /\ {LuaInt(1), LuaFloat(F_One)} \subseteq DOMAIN fi.constants
    /\ proto.Constants = <<LuaInt(1), LuaFloat(F_One)>>
    /\ Len(proto.Protos) = 1
    /\ proto.Protos[1].Constants = <<LuaInt(1)>>

\* C20: every prototype made by toProto, at every depth, has empty line-info,
\* local-variable and upvalue-name tables, and Dump writes each of the three
\* sections of every function block as a count of zero and nothing else.
C20_NoDebugInfo ==
    ProtoCompiled =>
        \A fn \in FnPaths(proto, <<>>) :
            LET p == ProtoAt(proto, fn)
            IN  /\ p.LineInfo = <<>> /\ p.LocVars = <<>> /\ p.UpvalueNames = <<>>
                /\ FunctionDumped =>
                      \A part \in {"lineInfo", "locVars", "upvalueNames"} :
                          SectionBytes(EntryOf(fn, part)) = <<0, 0, 0, 0>>

C20_Witness ==
    /\ pc = "dumpFunction"
    /\ fi # NoFuncInfo
    /\ Len(proto.Protos) = 2
    /\ Len(proto.Code) > 0
    /\ SubSeq(d.out, Len(d.out) - 11, Len(d.out)) = <<0, 0, 0, 0, 0, 0, 0, 0, 0, 0, 0, 0>>

-----------------------------------------------------------------------------
(* Properties of the host functions                                        *)

\* C16: pcall lets no error out and returns a boolean first: true and then all
\* the results of f, in order, when the call completes; false and then the
\* error value, and nothing else, when f raises an error or fails.
C16_PCallCatches ==
    host.fn = "pCall" =>
        /\ host.panic = NoPanic
        /\ 1 <= host.n /\ host.n <= Len(host.stack)
        /\ LET res == Results(host)
               f == IF host.args = <<>> THEN LuaNil ELSE host.args[1]
               a == IF host.args = <<>> THEN <<>> ELSE Tail(host.args)
           IN  /\ res[1].t = "bool"
               /\ ~res[1].b => Len(res) = 2
               /\ f = LuaFunction("echo") => res = <<LuaBool(TRUE)>> \o a
               /\ f = LuaFunction("none") => res = <<LuaBool(TRUE)>>
               /\ f = LuaFunction("error") /\ a # <<>> => res = <<LuaBool(FALSE), a[1]>>
               \* the host function error raises the value on top of its stack
               /\ f = GoFunction("error") /\ a # <<>> => res = <<LuaBool(FALSE), a[Len(a)]>>
               /\ f = LuaFunction("fails") => res = <<LuaBool(FALSE), LuaFailure>>
               /\ f.t # "function" => res = <<LuaBool(FALSE), NotAFunction>>
               /\ f = GoFunction("clock") =>
                     res[1].b /\ Len(res) = 2 /\ res[2].t = "int64"
               /\ f = GoFunction("pairs") /\ a # <<>> =>
                     res = <<LuaBool(TRUE), GoFunction("next"), a[1], LuaNil>>

C16_Witness ==
    /\ host.fn = "pCall"
    /\ host.args = <<GoFunction("pCall"), GoFunction("error"), A>>
    /\ Results(host) = <<LuaBool(TRUE), LuaBool(FALSE), A>>

\* C18: a host function that returns, called with any number of arguments,
\* returns a count between 0 and the number of values on its stack, and its
\* results are the top values: setmetatable(t, mt) returns t, getmetatable(v)
\* one value, the metatable or nil.
C18_ReturnProtocol ==
    (host.fn \in Registered /\ host.panic = NoPanic) =>
        /\ 0 <= host.n /\ host.n <= Len(host.stack)
        /\ (host.fn = "setMetatable" /\ Len(host.args) = 2) =>
              Results(host) = <<host.args[1]>>
        /\ host.fn = "getMetatable" =>
              /\ host.n = 1
              /\ Results(host) =
                    <<IF host.args # <<>> /\ host.args[1].t = "table"
                      THEN host.meta[host.args[1].id] ELSE LuaNil>>
        /\ (host.fn = "pairs" /\ host.args # <<>>) =>
              Results(host) = <<GoFunction("next"), host.args[1], LuaNil>>
        /\ (host.fn = "iPairs" /\ host.args # <<>>) =>
              Results(host) = <<GoFunction("_iPairsAux"), host.args[1], LuaInt(0)>>
        /\ host.fn = "print" => host.n = 0
        /\ host.fn = "clock" => host.n = 1 /\ Results(host)[1].t = "int64"

\* C12: a pairs loop over a table that is not modified meanwhile visits every
\* stored key exactly once, with its value (2 results each time), and then gets
\* a single nil: the body runs once for each entry, whatever the order.
C12_PairsVisitsAll ==
    loop.kind = "pairs" =>
        /\ ~loop.err
        /\ \A i \in 1..Len(loop.visits) :
              /\ loop.visits[i][1] \in StoredKeys
              /\ loop.visits[i][2] = t._map[loop.visits[i][1]]
              /\ \A j \in 1..Len(loop.visits) : i # j => loop.visits[i][1] # loop.visits[j][1]
        /\ (~loop.done /\ loop.visits # <<>>) => host.n = 2
        /\ loop.done =>
              /\ {loop.visits[i][1] : i \in 1..Len(loop.visits)} = StoredKeys
              /\ Len(loop.visits) = Cardinality(StoredKeys)
              /\ host.n = 1
              /\ Results(host) = <<LuaNil>>

C12_Witness ==
    /\ loop.kind = "pairs"
    /\ loop.done
    /\ Len(loop.visits) = 3
    /\ loop.visits[1][1] = A
    /\ loop.visits[2] = <<LuaInt(2), X>>

\* C17: an ipairs loop runs its body with (1, t[1]), (2, t[2]), ... in order and
\* ends at the first index whose value is nil, without a round for it; the
\* iteration function returns (i, t[i]), or a single nil.
C17_IPairsInOrder ==
    loop.kind = "ipairs" =>
        /\ ~loop.err
        /\ \A i \in 1..Len(loop.visits) :
              /\ loop.visits[i] = <<LuaInt(i), get(t, LuaInt(i))>>
              /\ loop.visits[i][2] # LuaNil
        /\ (~loop.done /\ loop.visits # <<>>) => host.n = 2
        /\ loop.done =>
              /\ get(t, LuaInt(Len(loop.visits) + 1)) = LuaNil
              /\ host.n = 1
              /\ Results(host) = <<LuaNil>>

C17_Witness ==
    /\ loop.kind = "ipairs"
    /\ loop.done
    /\ loop.visits = <<<<LuaInt(1), X>>, <<LuaInt(2), LuaInt(10)>>>>
    /\ A \in StoredKeys

-----------------------------------------------------------------------------
(* Properties of the parser                                                *)

RECURSIVE TokensOf(_)

\* the tokens a syntax tree stands for
TokensOf(node) ==
    IF "Stats" \in DOMAIN node
    THEN Flatten([i \in 1..Len(node.Stats) |-> TokensOf(node.Stats[i])])
    ELSE CASE node.stat = "empty" -> <<TOKEN_SEP_SEMI>>
           [] node.stat = "break" -> <<TOKEN_KW_BREAK>>
           [] node.stat = "do" -> <<TOKEN_KW_DO>> \o TokensOf(node.Block) \o <<TOKEN_KW_END>>

\* the number of do blocks open after the first n tokens
OpenBlocks(chunk, n) ==
    Cardinality({i \in 1..n : chunk[i] = TOKEN_KW_DO}) - Cardinality({i \in 1..n : chunk[i] = TOKEN_KW_END})

\* the first n tokens can start a chunk
Viable(chunk, n) ==
    \A i \in 1..n : chunk[i] # TOKEN_ILLEGAL /\ OpenBlocks(chunk, i) >= 0

WellFormed(chunk) == Viable(chunk, Len(chunk)) /\ OpenBlocks(chunk, Len(chunk)) = 0

\* C19: Parse returns a block only when the whole input was consumed, and the
\* block then stands for all of it; on any other input it fails at the first
\* token that cannot continue a chunk, returns no block, and nothing is printed.
C19_WholeInputOrError ==
    parse.pc # "none" =>
        /\ (parse.panic = "") <=> WellFormed(parse.chunk)
        /\ parse.panic = "" =>
              /\ parse.pos = Len(parse.chunk)
              /\ parse.ast # NoBlock
              /\ TokensOf(parse.ast) = parse.chunk
        /\ parse.panic # "" =>
              /\ parse.ast = NoBlock
              /\ parse.out = NoBlock
              /\ parse.pc = "Parse"
              /\ Viable(parse.chunk, parse.pos)
              /\ parse.pos < Len(parse.chunk) => ~Viable(parse.chunk, parse.pos + 1)
        /\ parse.pc = "println" => parse.out = parse.ast

C19_Witness ==
    /\ parse.pc = "println"
    /\ parse.chunk = <<TOKEN_KW_DO, TOKEN_SEP_SEMI, TOKEN_KW_END, TOKEN_KW_BREAK>>
    /\ parse.out = Block(<<DoStat(Block(<<EmptyStat>>)), BreakStat>>)

-----------------------------------------------------------------------------
(* Properties of the error handling of the chunk writer                    *)

WriteFailed == d.failAt > 0 /\ d.nth >= d.failAt

-----------------------------------------------------------------------------
(* Properties of the sections of a function block                          *)

\* the form of the elements of a section of prototype p, one by one
ElementForms(p, part) ==
    CASE part = "code" -> [i \in 1..Len(p.Code) |-> LowBytes(p.Code[i], 4)]
      [] part = "constants" -> [i \in 1..Len(p.Constants) |-> ConstantForm(p.Constants[i])]
      [] part = "upvalues" ->
            [i \in 1..Len(p.Upvalues) |-> <<p.Upvalues[i].Instack, p.Upvalues[i].Idx>>]
      [] part = "lineInfo" -> [i \in 1..Len(p.LineInfo) |-> LowBytes(p.LineInfo[i], 4)]
      [] part = "locVars" ->
            [i \in 1..Len(p.LocVars) |->
                StringForm(p.LocVars[i].VarName)
                \o LowBytes(p.LocVars[i].StartPC, 4) \o LowBytes(p.LocVars[i].EndPC, 4)]
      [] part = "upvalueNames" -> [i \in 1..Len(p.UpvalueNames) |-> StringForm(p.UpvalueNames[i])]

CountedParts == {"code", "constants", "upvalues", "lineInfo", "locVars", "upvalueNames"}

FirstEntryOf(fn) == CHOOSE i \in EntriesOf(fn) : \A j \in EntriesOf(fn) : i <= j

\* C22: in every function block Dump writes, at every depth, each section is
\* its 32-bit count followed by exactly that many elements, those of the
\* prototype in their order; an empty section is the count 0 alone; the count
\* of nested prototypes is followed by that many function blocks, in order.
C22_CountsMatchElements ==
    (FunctionDumped /\ d.failAt = 0) =>
        \A fn \in FnPaths(proto, <<>>) :
            LET p == ProtoAt(proto, fn)
            IN  /\ \A part \in CountedParts :
                      LET forms == ElementForms(p, part)
                      IN  SectionBytes(EntryOf(fn, part)) = LowBytes(Len(forms), 4) \o Flatten(forms)
                /\ SectionBytes(EntryOf(fn, "protos")) = LowBytes(Len(p.Protos), 4)
                /\ \A k \in 1..Len(p.Protos) :
                      /\ EntryOf(fn, "protos") < FirstEntryOf(Append(fn, k))
                      /\ EntryOf(Append(fn, k), "upvalueNames") < EntryOf(fn, "lineInfo")
                      /\ k > 1 => EntryOf(Append(fn, k - 1), "upvalueNames") < FirstEntryOf(Append(fn, k))
                /\ \A i \in 1..Len(d.log) :
                      (EntryOf(fn, "protos") < i /\ i < EntryOf(fn, "lineInfo"))
                          => \E k \in 1..Len(p.Protos) : IsPrefix(Append(fn, k), d.log[i].fn)

C22_Witness ==
    /\ pc = "dumpFunction"
    /\ d.failAt = 0
    /\ Len(proto.Protos) = 2
    /\ Len(proto.LocVars) = 2
    /\ proto.Protos[1].Constants = <<>>
    /\ proto.Protos[2].UpvalueNames # <<>>
    /\ SectionBytes(EntryOf(<<1>>, "constants")) = <<0, 0, 0, 0>>

-----------------------------------------------------------------------------
(* Properties of the conversion of nested functions                        *)

\* the paths of the functions of a funcInfo tree
RECURSIVE FuncInfoPaths(_, _)
FuncInfoPaths(f, fn) ==
    {fn} \cup UNION {FuncInfoPaths(f.subFuncs[i], Append(fn, i)) : i \in 1..Len(f.subFuncs)}

\* C23: at every depth the prototype has as many nested prototypes as its
\* funcInfo has sub-functions, the i-th being the conversion of the i-th
\* sub-function (its instructions, lines, parameters and constants), and its
\* IsVararg is 1 when the funcInfo is vararg and 0 when it is not.
C23_NestedInOrder ==
    ProtoCompiled =>
        /\ FnPaths(proto, <<>>) = FuncInfoPaths(fi, <<>>)
        /\ \A fn \in FuncInfoPaths(fi, <<>>) :
              LET f == FuncInfoAt(fi, fn)
                  p == ProtoAt(proto, fn)
              IN  /\ Len(p.Protos) = Len(f.subFuncs)
                  /\ p.Code = f.insts
                  /\ p.LineDefined = f.LineDefined
                  /\ p.LastLineDefined = f.LastLineDefined
                  /\ p.NumParams = f.numParams
                  /\ Len(p.Constants) = Cardinality(DOMAIN f.constants)
                  /\ Len(p.Upvalues) = Cardinality(DOMAIN f.upvalues)
                  /\ p.IsVararg = (IF f.isVararg THEN 1 ELSE 0)

C23_Witness ==
    /\ pc = "toProto"
    /\ Len(fi.subFuncs) = 2
    /\ ~fi.isVararg
    /\ fi.subFuncs[1].isVararg
    /\ fi.subFuncs[2].numParams = 1
    /\ proto.IsVararg = 0
    /\ proto.Protos[1].IsVararg = 1
    /\ proto.Protos[2].NumParams = 1

-----------------------------------------------------------------------------
(* Properties of package proc                                              *)

OnActive(th) == th.bp.Active

OnActiveInternal(th) == th.bp.Active /\ th.bp.Internal

ThreadsOf(T) == {T.threads[i] : i \in 1..Len(T.threads)}

CurrentOf(T) == CHOOSE th \in ThreadsOf(T) : th.ID = T.currentThread

\* C25: pickCurrentThread makes exactly one switch, to a thread on an active
\* internal breakpoint if there is one; else, if some thread is on an active
\* breakpoint, to the trap thread when it is one of them and to another such
\* thread when it is not; else to the trap thread. It never picks a thread
\* without an active breakpoint while some thread has one.
C25_PickByPriority ==
    dbp.pc = "picked" =>
        LET trap == dbp.threads[dbp.trapthread]
            cur == CurrentOf(dbp)
        IN  /\ Len(dbp.switched) = 1
            /\ dbp.switched[1] = dbp.currentThread
            /\ \E th \in ThreadsOf(dbp) : th.ID = dbp.currentThread
            /\ IF \E th \in ThreadsOf(dbp) : OnActiveInternal(th) THEN OnActiveInternal(cur)
               ELSE IF \E th \in ThreadsOf(dbp) : OnActive(th)
                    THEN IF OnActive(trap) THEN cur = trap ELSE OnActive(cur)
               ELSE cur = trap
            /\ (\E th \in ThreadsOf(dbp) : OnActive(th)) => OnActive(cur)

C25_Witness ==
    /\ dbp.pc = "picked"
    /\ Len(dbp.threads) = 3
    /\ dbp.trapthread = 2
    /\ dbp.threads[2].bp = BreakpointState(1, TRUE, FALSE)
    /\ dbp.threads[3].bp = BreakpointState(1, TRUE, TRUE)
    /\ dbp.threads[1].bp = BreakpointState(1, FALSE, TRUE)
    /\ dbp.currentThread = 3

\* a stepping call is made on the stopped target
SteppingCall == dbp.pc = "idle" /\ dbp'.call.fn \in {"Next", "Step", "StepOut"}

\* C24: Next, Step or StepOut called on a valid target that has internal
\* breakpoints returns "next while nexting", leaving every breakpoint as it was
\* and the target not resumed; Next or StepOut that passes that guard and fails
\* before Continue returns its error with no internal breakpoint left and the
\* target not resumed.
C24_NoStepWhileStepping ==
    [][SteppingCall =>
          /\ (dbp.valid /\ HasInternalBreakpoints(dbp)) =>
                /\ dbp'.call.err = ErrNextWhileNexting
                /\ dbp'.pc = "idle"
                /\ dbp'.bps = dbp.bps
                /\ dbp'.threads = dbp.threads
                /\ ~dbp'.call.resumed
          /\ (dbp.valid /\ ~HasInternalBreakpoints(dbp)
                /\ dbp'.call.fn \in {"Next", "StepOut"} /\ dbp'.pc = "idle") =>
                /\ dbp'.call.err \notin {ErrNil, "pending"}
                /\ ~HasInternalBreakpoints(dbp')
                /\ ~dbp'.call.resumed
          /\ (dbp.valid /\ ~HasInternalBreakpoints(dbp) /\ dbp'.pc # "idle") =>
                /\ dbp'.pc = "Continue"
                /\ dbp'.call.err = "pending"]_vars

C24_Witness ==
    /\ dbp.pc = "idle"
    /\ dbp.valid
    /\ dbp.call.fn = "StepOut"
    /\ dbp.call.err = ErrNextWhileNexting
    /\ ~dbp.call.resumed
    /\ InternalBreakpoints(dbp) = {2, 3}

=============================================================================
